---------------------------- MODULE Spec2Model ----------------------------
(***************************************************************************)
(* Authenticated RAM of diet-mac-and-cheese (src/ram): the Prover and the  *)
(* Verifier memory facades, the low-level remove / insert / finalize of    *)
(* both parties, the Fiat-Shamir transcript channel and the ordered byte   *)
(* channel between the parties.                                            *)
(*                                                                         *)
(* Field elements are the integers 0..P-1 with arithmetic modulo P.  An    *)
(* authenticated wire is modelled by the value it authenticates: on the    *)
(* Prover this is MacProver::value(), on the Verifier it is the value the  *)
(* MAC key binds the Prover to (the commitment functionality of homcom).   *)
(***************************************************************************)
EXTENDS Integers, Sequences, FiniteSets, Bags, TLC

\* ------------------------------------------------------------------ bounds
P == 3            \* size of the field V (F61p in the tests)
RamSize == 2      \* bound of the address space Bounded::new(bound)
MaxOps == 3       \* facade / low-level calls issued before finalize
MaxBound == 5     \* largest bound given to Bounded::new on its own
MaxBackends == 2  \* field backends (EvaluatorSingle) of one evaluator
MaxGates == 2     \* RAM plugin gates given to plugin_call_gate

\* ------------------------------------------------------- program constants
DIM_ADDR == 1
DIM_VALUE == 1
DimChal == 2      \* (100 + bits - 1) / bits with bits = 61

Field == 0 .. (P - 1)
Addrs == 0 .. RamSize          \* RamSize itself lies outside the space
\* input alphabets: the values the circuit writes and the outcomes of
\* V::random in the Verifier's finalize
Vals == {0, 1}
Chals == {0, 1}

FAdd(a, b) == (a + b) % P
FMul(a, b) == (a * b) % P
FSub(a, b) == (a + P - (b % P)) % P

\* ------------------------------------------------------------- transcript
\* blake3::Hasher: the state is the sequence of absorbed bytes, the digest a
\* function of it.  The digest has two 16-byte halves.
HashMod == 2 * P + 1

RECURSIVE DigestHalf(_, _)
DigestHalf(tx, half) ==
    IF tx = <<>> THEN half
    ELSE (3 * DigestHalf(SubSeq(tx, 1, Len(tx) - 1), half) + tx[Len(tx)] + 1 + half)
             % HashMod

\* F::from_uniform_bytes: reduction of 16 digest bytes into the field
FromUniformBytes(d) == d % P

\* Hasher::update
TxUpdate(tx, buf) == tx \o buf

\* faulty variant: every pair of elements is cut from a digest of its own
\* (the pair index is absorbed before the digest is taken)
TxChallengeFreshDigests(tx, n) ==
    [i \in 1 .. n |->
        LET pair == (i - 1) \div 2
            st == IF pair = 0 THEN tx ELSE TxUpdate(tx, <<pair>>)
        IN  FromUniformBytes(DigestHalf(st, (i - 1) % 2))]

\* TxChannel::challenge::<F, N>: element i from half (i mod 2) of one digest
TxChallenge(tx, n) ==
    [i \in 1 .. n |-> FromUniformBytes(DigestHalf(tx, (i - 1) % 2))]

\* ---------------------------------------------------------- address space
RECURSIVE BoundedIter(_, _)
BoundedIter(current, rem) ==
    IF rem > 0 THEN <<current>> \o BoundedIter(FAdd(current, 1), rem - 1)
    ELSE <<>>

\* Bounded::enumerate
Enumerate == BoundedIter(0, RamSize)

\* ------------------------------------------------------------- collapsing
RECURSIVE CombineFrom(_, _, _, _)
CombineFrom(y, elems, i, x) ==
    IF i > Len(elems) THEN y
    ELSE CombineFrom(FAdd(FMul(y, x), elems[i]), elems, i + 1, x)

\* faulty variant: the fold runs from the last element to the first
CombineFromRight(elems, x) ==
    LET rev == [i \in 1 .. Len(elems) |-> elems[Len(elems) + 1 - i]]
    IN  CombineFrom(rev[1], rev, 2, x)

\* combine: y = copy(e0); for c in rest: y = y * x + c
Combine(elems, x) == CombineFrom(elems[1], elems, 2, x)

\* collapse_vecs
CollapseVecs(log, x) == [i \in 1 .. Len(log) |-> Combine(log[i], x)]

RECURSIVE ShiftedProduct(_, _)
ShiftedProduct(xs, chal) ==
    IF xs = <<>> THEN 1
    ELSE FMul(FAdd(xs[1], chal), ShiftedProduct(Tail(xs), chal))

\* perm::permutation: prod (lhs_i + chal) == prod (rhs_i + chal)
Permutation(chal, lhs, rhs) == ShiftedProduct(lhs, chal) = ShiftedProduct(rhs, chal)


\* ------------------------------------------------------------ commitments
\* The k-th mask of the VOLE stream consumed by FComProver::input1 (the
\* stream of a seeded AesRng)
Mask(k) == (2 * k + 1) % P

\* FComProver::input1 on the elements of old: the bytes put on the channel
\* (value minus mask) and the values they commit to
Input1(old, used) ==
    [bytes |-> [i \in 1 .. Len(old) |-> FSub(old[i], Mask(used + i))],
     com |-> old]

Zeros(n) == [i \in 1 .. n |-> 0]

\* ----------------------------------------------------------------- Prover
Dim == DIM_ADDR + DIM_VALUE + DimChal

\* Prover::new
ProverNew ==
    [memory |-> [a \in Field |-> <<>>], rds |-> <<>>, wrs |-> <<>>, tx |-> <<>>]

\* faulty variant: the default of an absent address is built from ONE
MemoryRemoveOnes(p, addr) ==
    IF p.memory[addr] = <<>> THEN [i \in 1 .. DIM_VALUE + DimChal |-> 1]
    ELSE p.memory[addr]

\* memory.remove(addr).unwrap_or_else(default)
MemoryRemove(p, addr) ==
    IF p.memory[addr] = <<>> THEN Zeros(DIM_VALUE + DimChal) ELSE p.memory[addr]

\* faulty variant: the entry is looked up but left in the map
ProverCommitKeepsEntry(p, addr, old) ==
    LET m == Input1(old, Len(p.tx))
        flat == <<addr>> \o old
    IN  [p |-> [p EXCEPT !.rds = Append(@, flat),
                         !.tx = TxUpdate(@, m.bytes)],
         value |-> SubSeq(flat, DIM_ADDR + 1, DIM_ADDR + DIM_VALUE),
         msg |-> m]

\* faulty variant: the read log records the stored entry, not the committed one
ProverCommitLogsStored(p, addr, old) ==
    LET m == Input1(old, Len(p.tx))
        flat == <<addr>> \o MemoryRemove(p, addr)
    IN  [p |-> [p EXCEPT !.memory[addr] = <<>>,
                         !.rds = Append(@, flat),
                         !.tx = TxUpdate(@, m.bytes)],
         value |-> SubSeq(flat, DIM_ADDR + 1, DIM_ADDR + DIM_VALUE),
         msg |-> m]

\* faulty variant: only the value elements are committed to, the challenge
\* material is not
ProverCommitValueOnly(p, addr, old) ==
    LET m == Input1(SubSeq(old, 1, DIM_VALUE), Len(p.tx))
        flat == <<addr>> \o old
    IN  [p |-> [p EXCEPT !.memory[addr] = <<>>,
                         !.rds = Append(@, flat),
                         !.tx = TxUpdate(@, m.bytes)],
         value |-> SubSeq(flat, DIM_ADDR + 1, DIM_ADDR + DIM_VALUE),
         msg |-> m]

\* faulty variant: taking the entry out empties the whole map
ProverCommitClearsMap(p, addr, old) ==
    LET m == Input1(old, Len(p.tx))
        flat == <<addr>> \o old
    IN  [p |-> [p EXCEPT !.memory = [a \in Field |-> <<>>],
                         !.rds = Append(@, flat),
                         !.tx = TxUpdate(@, m.bytes)],
         value |-> SubSeq(flat, DIM_ADDR + 1, DIM_ADDR + DIM_VALUE),
         msg |-> m]

\* Prover::remove from "commit to the old value" on: old is what is committed
ProverCommit(p, addr, old) ==
    LET m == Input1(old, Len(p.tx))
        flat == <<addr>> \o old
    IN  [p |-> [p EXCEPT !.memory[addr] = <<>>,
                         !.rds = Append(@, flat),
                         !.tx = TxUpdate(@, m.bytes)],
         value |-> SubSeq(flat, DIM_ADDR + 1, DIM_ADDR + DIM_VALUE),
         msg |-> m]

\* Prover::remove
ProverRemove(p, addr) == ProverCommit(p, addr, MemoryRemove(p, addr))

\* faulty variant: an occupied entry is overwritten (HashMap::insert)
ProverInsertOverwrites(p, addr, value) ==
    LET chal == [i \in 1 .. DimChal |-> TxChallenge(p.tx, 1)[1]]
        flat == <<addr>> \o value \o chal
    IN  [p |-> [p EXCEPT !.memory[addr] = SubSeq(flat, DIM_ADDR + 1, Len(flat)),
                         !.wrs = Append(@, flat)],
         panic |-> FALSE,
         chal |-> chal]

\* faulty variant: the stored slice starts one element early (at the address)
ProverInsertOffByOne(p, addr, value) ==
    IF p.memory[addr] # <<>>
    THEN [p |-> p, panic |-> TRUE, chal |-> <<>>]
    ELSE LET chal == [i \in 1 .. DimChal |-> TxChallenge(p.tx, 1)[1]]
             flat == <<addr>> \o value \o chal
         IN  [p |-> [p EXCEPT !.memory[addr] = SubSeq(flat, DIM_ADDR, Len(flat) - 1),
                              !.wrs = Append(@, flat)],
              panic |-> FALSE,
              chal |-> chal]

\* faulty variant: the map keeps the value with all-zero challenge material
ProverInsertDropsChallenge(p, addr, value) ==
    IF p.memory[addr] # <<>>
    THEN [p |-> p, panic |-> TRUE, chal |-> <<>>]
    ELSE LET chal == [i \in 1 .. DimChal |-> TxChallenge(p.tx, 1)[1]]
             flat == <<addr>> \o value \o chal
         IN  [p |-> [p EXCEPT !.memory[addr] = value \o Zeros(DimChal),
                              !.wrs = Append(@, flat)],
              panic |-> FALSE,
              chal |-> chal]

\* Prover::insert
ProverInsert(p, addr, value) ==
    IF p.memory[addr] # <<>>
    THEN [p |-> p, panic |-> TRUE, chal |-> <<>>]
    ELSE LET chal == [i \in 1 .. DimChal |-> TxChallenge(p.tx, 1)[1]]
             flat == <<addr>> \o value \o chal
         IN  [p |-> [p EXCEPT !.memory[addr] = SubSeq(flat, DIM_ADDR + 1, Len(flat)),
                              !.wrs = Append(@, flat)],
              panic |-> FALSE,
              chal |-> chal]

\* faulty variant: the address is not copied into the pre-filled write record
RECURSIVE ProverDrainNoAddr(_, _, _)
ProverDrainNoAddr(p, addrs, msgs) ==
    IF addrs = <<>> THEN [p |-> p, msgs |-> msgs]
    ELSE LET pre == Zeros(Dim)
             r == ProverRemove([p EXCEPT !.wrs = Append(@, pre)], addrs[1])
         IN  ProverDrainNoAddr(r.p, Tail(addrs), Append(msgs, r.msg))

\* faulty variant: only the addresses present in the map are removed
RECURSIVE ProverDrainSkipAbsent(_, _, _)
ProverDrainSkipAbsent(p, addrs, msgs) ==
    IF addrs = <<>> THEN [p |-> p, msgs |-> msgs]
    ELSE LET pre == <<addrs[1]>> \o Zeros(Dim - DIM_ADDR)
             q == [p EXCEPT !.wrs = Append(@, pre)]
             r == ProverRemove(q, addrs[1])
         IN  IF p.memory[addrs[1]] = <<>>
             THEN ProverDrainSkipAbsent(q, Tail(addrs), msgs)
             ELSE ProverDrainSkipAbsent(r.p, Tail(addrs), Append(msgs, r.msg))

\* faulty variant: entries left in the map after the loop are dropped
RECURSIVE ProverDrainClearsMap(_, _, _)
ProverDrainClearsMap(p, addrs, msgs) ==
    IF addrs = <<>>
    THEN [p |-> [p EXCEPT !.memory = [a \in Field |-> <<>>]], msgs |-> msgs]
    ELSE LET pre == <<addrs[1]>> \o Zeros(Dim - DIM_ADDR)
             r == ProverRemove([p EXCEPT !.wrs = Append(@, pre)], addrs[1])
         IN  ProverDrainClearsMap(r.p, Tail(addrs), Append(msgs, r.msg))

\* faulty variant: the loop stops before the last address of the space
RECURSIVE ProverDrainStopsEarly(_, _, _)
ProverDrainStopsEarly(p, addrs, msgs) ==
    IF Len(addrs) <= 1 THEN [p |-> p, msgs |-> msgs]
    ELSE LET pre == <<addrs[1]>> \o Zeros(Dim - DIM_ADDR)
             r == ProverRemove([p EXCEPT !.wrs = Append(@, pre)], addrs[1])
         IN  ProverDrainStopsEarly(r.p, Tail(addrs), Append(msgs, r.msg))

\* Prover::finalize, the loop over space.enumerate()
RECURSIVE ProverDrain(_, _, _)
ProverDrain(p, addrs, msgs) ==
    IF addrs = <<>> THEN [p |-> p, msgs |-> msgs]
    ELSE LET pre == <<addrs[1]>> \o Zeros(Dim - DIM_ADDR)
             r == ProverRemove([p EXCEPT !.wrs = Append(@, pre)], addrs[1])
         IN  ProverDrain(r.p, Tail(addrs), Append(msgs, r.msg))

\* Prover::finalize, from collapse_vecs to the two permutation checks
ProverCheck(p, chal_cmbn, chal_perm1, chal_perm2) ==
    LET wrs == CollapseVecs(p.wrs, chal_cmbn)
        rds == CollapseVecs(p.rds, chal_cmbn)
    IN  Permutation(chal_perm1, wrs, rds) /\ Permutation(chal_perm2, wrs, rds)

\* --------------------------------------------------------------- Verifier
\* Verifier::new
VerifierNew ==
    [memory |-> [a \in Field |-> <<>>], rds |-> <<>>, wrs |-> <<>>, tx |-> <<>>]

\* faulty variant: the commitments are read from the raw channel, nothing is absorbed
VerifierRemoveNoAbsorb(v, addr, m) ==
    LET flat == <<addr>> \o m.com
    IN  [v |-> [v EXCEPT !.rds = Append(@, flat)],
         value |-> SubSeq(flat, DIM_ADDR + 1, DIM_ADDR + DIM_VALUE)]

\* Verifier::remove: input() reads the commitments of one message
VerifierRemove(v, addr, m) ==
    LET flat == <<addr>> \o m.com
    IN  [v |-> [v EXCEPT !.rds = Append(@, flat), !.tx = TxUpdate(@, m.bytes)],
         value |-> SubSeq(flat, DIM_ADDR + 1, DIM_ADDR + DIM_VALUE)]

\* faulty variant: the Verifier keeps a map entry per inserted address
VerifierInsertStores(v, addr, value) ==
    LET chal == [i \in 1 .. DimChal |-> TxChallenge(v.tx, 1)[1]]
        flat == <<addr>> \o value \o chal
    IN  [v |-> [v EXCEPT !.memory[addr] = SubSeq(flat, DIM_ADDR + 1, Len(flat)),
                         !.wrs = Append(@, flat)],
         chal |-> chal]

\* faulty variant: the write record carries no challenge elements
VerifierInsertNoChallenge(v, addr, value) ==
    LET chal == [i \in 1 .. DimChal |-> TxChallenge(v.tx, 1)[1]]
        flat == <<addr>> \o value
    IN  [v |-> [v EXCEPT !.wrs = Append(@, flat)], chal |-> chal]

\* Verifier::insert
VerifierInsert(v, addr, value) ==
    LET chal == [i \in 1 .. DimChal |-> TxChallenge(v.tx, 1)[1]]
        flat == <<addr>> \o value \o chal
    IN  [v |-> [v EXCEPT !.wrs = Append(@, flat)], chal |-> chal]

\* faulty variant: the drain removes every address without queueing the
\* all-default write record
RECURSIVE VerifierDrainNoPrefill(_, _, _)
VerifierDrainNoPrefill(v, addrs, msgs) ==
    IF addrs = <<>> THEN v
    ELSE LET r == VerifierRemove(v, addrs[1], msgs[1])
         IN  VerifierDrainNoPrefill(r.v, Tail(addrs), Tail(msgs))

\* Verifier::finalize, the loop over space.enumerate()
RECURSIVE VerifierDrain(_, _, _)
VerifierDrain(v, addrs, msgs) ==
    IF addrs = <<>> THEN v
    ELSE LET pre == <<addrs[1]>> \o Zeros(Dim - DIM_ADDR)
             r == VerifierRemove([v EXCEPT !.wrs = Append(@, pre)], addrs[1], msgs[1])
         IN  VerifierDrain(r.v, Tail(addrs), Tail(msgs))

\* faulty variant: only the check with chal_perm1 decides
VerifierCheckFirstOnly(v, chal_cmbn, chal_perm1, chal_perm2) ==
    LET wrs == CollapseVecs(v.wrs, chal_cmbn)
        rds == CollapseVecs(v.rds, chal_cmbn)
    IN  Permutation(chal_perm1, wrs, rds)

\* Verifier::finalize, from collapse_vecs to the two permutation checks
VerifierCheck(v, chal_cmbn, chal_perm1, chal_perm2) ==
    LET wrs == CollapseVecs(v.wrs, chal_cmbn)
        rds == CollapseVecs(v.rds, chal_cmbn)
    IN  Permutation(chal_perm1, wrs, rds) /\ Permutation(chal_perm2, wrs, rds)


\* ------------------------------------------------------------------ state
VARIABLES
    prover,     \* the Prover instance held by MemoryProver (memory, rds, wrs, tx)
    verifier,   \* the Verifier instance held by MemoryVerifier
    p_st,       \* MemoryProver: "None", "Active", "Drained" (in finalize,
                \* waiting for the challenges), "Done", "Panic"
    v_st,       \* MemoryVerifier: "None", "Active", "Drained" (in finalize,
                \* the space drained, the challenges not yet sampled), "Done"
    p_res,      \* outcome of the Prover's finalize: "none", "ok", "fail"
    v_res,      \* outcome of the Verifier's finalize
    p2v,        \* channel Prover -> Verifier: one message per remove
    v2p,        \* channel Verifier -> Prover: serialized field elements
    prog,       \* the gates evaluated so far by the Prover (the shared circuit)
    v_pc,       \* number of gates of prog the Verifier has evaluated
    p_ret,      \* the last facade call of the Prover and what it returned
    written,    \* per address, the value of the last facade write (-1: none)
    p_chals,    \* challenges derived by the Prover's inserts, in order
    v_chals,    \* challenges derived by the Verifier's inserts, in order
    p_trip,     \* the challenges read by the Prover in finalize
    v_trip,     \* the challenges sampled by the Verifier in finalize
    v_logs,     \* the Verifier's rds / wrs as collapse_vecs received them
    cheated,    \* a remove committed to a value other than the stored one
    t_tx,       \* a TxChannel on its own: the hasher it feeds
    t_sent,     \* ... the bytes its underlying channel accepted
    t_hist,     \* ... the calls made on it, in order
    t_out,      \* ... what the last call returned
    it_bound,   \* a Bounded space on its own: its bound
    it_cur,     \* ... BoundedIter.current of the iterator last created
    it_rem,     \* ... BoundedIter.rem (-1: no iterator created yet)
    it_out,     \* ... the addresses that iterator has yielded
    it_prev,    \* ... the addresses the iterator before it had yielded
    it_done,    \* ... next() of the iterator has returned None
    ev_pc,      \* the evaluator: "gates", "finish" or "returned"
    ev_i,       \* ... index of the backend finish() is finalizing
    ev_step,    \* ... next step of EvaluatorSingle::finalize on it
    ev_log,     \* ... per backend, the calls made on it, in order
    ev_result,  \* ... what the evaluation returned: "none", "ok", "err"
    fs_cfg,     \* fiat_shamir::<V>() of the field the parties are built over
    p_buf,      \* the Prover's BufWriter: messages written and not yet flushed
    cv_in,      \* combine / collapse_vecs on their own: the last call's input
    cv_out,     \* ... and what it returned
    pl_op,      \* the RAM plugin: the operation name given to instantiate
    pl_wires,   \* ... the evaluator's wire memory
    pl_calls,   \* ... the ram_read / ram_write calls made on the backend
    pl_hist,    \* ... the plugin gates given to plugin_call_gate, in order
    pl_res      \* ... outcome of the last call: "none", "ok", "err", "panic"

vars == <<prover, verifier, p_st, v_st, p_res, v_res, p2v, v2p, prog, v_pc,
          p_ret, written, p_chals, v_chals, p_trip, v_trip, v_logs, cheated,
          t_tx, t_sent, t_hist, t_out,
          it_bound, it_cur, it_rem, it_out, it_prev, it_done,
          ev_pc, ev_i, ev_step, ev_log, ev_result,
          fs_cfg, p_buf, cv_in, cv_out,
          pl_op, pl_wires, pl_calls, pl_hist, pl_res>>

vside == <<verifier, v_st, v_res, v_pc, v_chals, v_trip, v_logs>>
pside == <<prover, p_st, p_res, p_ret, written, p_chals, p_trip>>
txunit == <<t_tx, t_sent, t_hist, t_out>>
itunit == <<it_bound, it_cur, it_rem, it_out, it_prev, it_done>>
evunit == <<ev_pc, ev_i, ev_step, ev_log, ev_result>>
cvunit == <<cv_in, cv_out>>
plunit == <<pl_op, pl_wires, pl_calls, pl_hist, pl_res>>
Backends == 1 .. MaxBackends

\* the wires of the evaluator's memory the plugin gates range over
GateWires == {0, 1}
ram == <<vside, pside, p2v, v2p, prog, cheated>>

NoRet == [kind |-> "none", addr |-> 0, val |-> 0]

Init ==
    /\ prover = ProverNew
    /\ verifier = VerifierNew
    /\ p_st = "None"
    /\ v_st = "None"
    /\ p_res = "none"
    /\ v_res = "none"
    /\ p2v = <<>>
    /\ v2p = <<>>
    /\ prog = <<>>
    /\ v_pc = 0
    /\ p_ret = NoRet
    /\ written = [a \in Addrs |-> -1]
    /\ p_chals = <<>>
    /\ v_chals = <<>>
    /\ p_trip = <<>>
    /\ v_trip = <<>>
    /\ v_logs = [rds |-> <<>>, wrs |-> <<>>]
    /\ cheated = FALSE
    /\ t_tx = <<>>
    /\ t_sent = <<>>
    /\ t_hist = <<>>
    /\ t_out = [res |-> "none", chal |-> <<>>]
    /\ it_bound = 0
    /\ it_cur = 0
    /\ it_rem = -1
    /\ it_out = <<>>
    /\ it_prev = <<>>
    /\ it_done = FALSE
    /\ ev_pc = "gates"
    /\ ev_i = 1
    /\ ev_step = "conv"
    /\ ev_log = [b \in Backends |-> <<>>]
    /\ ev_result = "none"
    /\ fs_cfg = FALSE
    /\ p_buf = <<>>
    /\ cv_in = [kind |-> "none", arg |-> <<>>, x |-> 0]
    /\ cv_out = <<>>
    /\ pl_op = "none"
    /\ pl_wires = [w \in GateWires |-> w]
    /\ pl_calls = <<>>
    /\ pl_hist = <<>>
    /\ pl_res = "none"

\* ----------------------------------------------------------- MemoryProver
\* faulty variant: the value removed by a read is not inserted back
PReadNoReinsert(a) ==
    /\ p_st \in {"None", "Active"}
    /\ Len(prog) < MaxOps
    /\ LET inst == IF p_st = "None" THEN ProverNew ELSE prover
           r == ProverRemove(inst, a)
       IN  /\ prover' = [r.p EXCEPT !.wrs = Append(@, <<a>> \o r.value \o Zeros(DimChal))]
           /\ p2v' = Append(p2v, r.msg)
           /\ p_ret' = [kind |-> "read", addr |-> a, val |-> r.value[1]]
    /\ p_st' = "Active"
    /\ prog' = Append(prog, [kind |-> "read", addr |-> a, val |-> 0])
    /\ UNCHANGED <<txunit, itunit, evunit, fs_cfg, p_buf, cvunit, plunit, vside, p_res, v2p, written, p_chals, p_trip, cheated>>

\* faulty variant: after the call made again in the None arm has returned,
\* the arm goes on and performs the operation a second time
PReadFallsThrough(a) ==
    /\ p_st \in {"None", "Active"}
    /\ Len(prog) < MaxOps
    /\ LET inst == IF p_st = "None" THEN ProverNew ELSE prover
           r == ProverRemove(inst, a)
           i == ProverInsert(r.p, a, r.value)
           r2 == ProverRemove(i.p, a)
           i2 == ProverInsert(r2.p, a, r2.value)
       IN  IF p_st = "None"
           THEN /\ prover' = i2.p
                /\ p2v' = p2v \o <<r.msg, r2.msg>>
                /\ p_chals' = p_chals \o <<i.chal, i2.chal>>
           ELSE /\ prover' = i.p
                /\ p2v' = Append(p2v, r.msg)
                /\ p_chals' = Append(p_chals, i.chal)
    /\ p_st' = "Active"
    /\ p_ret' = [kind |-> "read", addr |-> a, val |-> MemoryRemove(prover, a)[1]]
    /\ prog' = Append(prog, [kind |-> "read", addr |-> a, val |-> 0])
    /\ UNCHANGED <<txunit, itunit, evunit, fs_cfg, p_buf, cvunit, plunit, vside, p_res, v2p, written, p_trip, cheated>>

\* MemoryProver::read (the None arm creates the instance and calls again)
PRead(a) ==
    /\ p_st \in {"None", "Active"}
    /\ Len(prog) < MaxOps
    /\ LET inst == IF p_st = "None" THEN ProverNew ELSE prover
           r == ProverRemove(inst, a)
           i == ProverInsert(r.p, a, r.value)
       IN  /\ prover' = i.p
           /\ p_st' = IF i.panic THEN "Panic" ELSE "Active"
           /\ p2v' = Append(p2v, r.msg)
           /\ p_ret' = [kind |-> "read", addr |-> a, val |-> r.value[1]]
           /\ p_chals' = IF i.panic THEN p_chals ELSE Append(p_chals, i.chal)
    /\ prog' = Append(prog, [kind |-> "read", addr |-> a, val |-> 0])
    /\ UNCHANGED <<txunit, itunit, evunit, fs_cfg, p_buf, cvunit, plunit, vside, p_res, v2p, written, p_trip, cheated>>

\* MemoryProver::write
PWrite(a, val) ==
    /\ p_st \in {"None", "Active"}
    /\ Len(prog) < MaxOps
    /\ LET inst == IF p_st = "None" THEN ProverNew ELSE prover
           r == ProverRemove(inst, a)
           i == ProverInsert(r.p, a, <<val>>)
       IN  /\ prover' = i.p
           /\ p_st' = IF i.panic THEN "Panic" ELSE "Active"
           /\ p2v' = Append(p2v, r.msg)
           /\ p_chals' = IF i.panic THEN p_chals ELSE Append(p_chals, i.chal)
    /\ p_ret' = [kind |-> "write", addr |-> a, val |-> val]
    /\ written' = [written EXCEPT ![a] = val]
    /\ prog' = Append(prog, [kind |-> "write", addr |-> a, val |-> val])
    /\ UNCHANGED <<txunit, itunit, evunit, fs_cfg, p_buf, cvunit, plunit, vside, p_res, v2p, p_trip, cheated>>

\* faulty variant: finalize on None creates an instance and drains it
PFinalizeNoneDrains ==
    /\ p_st = "None"
    /\ LET d == ProverDrain(ProverNew, Enumerate, <<>>)
       IN  /\ prover' = d.p
           /\ p2v' = p2v \o d.msgs
    /\ p_st' = "Drained"
    /\ prog' = Append(prog, [kind |-> "finalize", addr |-> 0, val |-> 0])
    /\ UNCHANGED <<txunit, itunit, evunit, fs_cfg, p_buf, cvunit, plunit, vside, p_res, v2p, p_ret, written, p_chals,
                   p_trip, cheated>>

\* MemoryProver::finalize on None: Ok(()) and nothing else
PFinalizeNone ==
    /\ p_st = "None"
    /\ p_st' = "Done"
    /\ p_res' = "ok"
    /\ prog' = Append(prog, [kind |-> "finalize", addr |-> 0, val |-> 0])
    /\ UNCHANGED <<txunit, itunit, evunit, fs_cfg, p_buf, cvunit, plunit, vside, prover, p2v, v2p, p_ret, written, p_chals,
                   p_trip, cheated>>

\* MemoryProver::finalize -> Prover::finalize up to the blocking read of the
\* challenges: the drain, the length assertion, the flush
PFinalizeDrain ==
    /\ p_st = "Active"
    /\ LET d == ProverDrain(prover, Enumerate, <<>>)
       IN  /\ prover' = d.p
           /\ p2v' = p2v \o d.msgs
           /\ p_st' = IF Len(d.p.rds) = Len(d.p.wrs) THEN "Drained" ELSE "Panic"
    /\ prog' = Append(prog, [kind |-> "finalize", addr |-> 0, val |-> 0])
    /\ UNCHANGED <<txunit, itunit, evunit, fs_cfg, p_buf, cvunit, plunit, vside, p_res, v2p, p_ret, written, p_chals, p_trip,
                   cheated>>

\* faulty variant: the first element read is taken for chal_perm1 and the
\* second for chal_cmbn
PFinalizeCheckSwapsRoles ==
    /\ p_st = "Drained"
    /\ Len(v2p) >= 3
    /\ LET ok == ProverCheck(prover, v2p[2], v2p[1], v2p[3])
       IN  p_res' = IF ok THEN "ok" ELSE "fail"
    /\ p_trip' = <<v2p[2], v2p[1], v2p[3]>>
    /\ v2p' = SubSeq(v2p, 4, Len(v2p))
    /\ prover' = [prover EXCEPT !.rds = <<>>, !.wrs = <<>>]
    /\ p_st' = "Done"
    /\ UNCHANGED <<txunit, itunit, evunit, fs_cfg, p_buf, cvunit, plunit, vside, p2v, prog, p_ret, written, p_chals, cheated>>

\* Prover::finalize from read_serializable on
PFinalizeCheck ==
    /\ p_st = "Drained"
    /\ Len(v2p) >= 3
    /\ LET ok == ProverCheck(prover, v2p[1], v2p[2], v2p[3])
       IN  p_res' = IF ok THEN "ok" ELSE "fail"
    /\ p_trip' = SubSeq(v2p, 1, 3)
    /\ v2p' = SubSeq(v2p, 4, Len(v2p))
    /\ prover' = [prover EXCEPT !.rds = <<>>, !.wrs = <<>>]
    /\ p_st' = "Done"
    /\ UNCHANGED <<txunit, itunit, evunit, fs_cfg, p_buf, cvunit, plunit, vside, p2v, prog, p_ret, written, p_chals, cheated>>

\* --------------------------------------------------------- MemoryVerifier
NextGate == prog[v_pc + 1]

\* MemoryVerifier::read
VRead ==
    /\ v_st \in {"None", "Active"}
    /\ v_pc < Len(prog)
    /\ NextGate.kind = "read"
    /\ p2v # <<>>
    /\ LET inst == IF v_st = "None" THEN VerifierNew ELSE verifier
           r == VerifierRemove(inst, NextGate.addr, Head(p2v))
           i == VerifierInsert(r.v, NextGate.addr, r.value)
       IN  /\ verifier' = i.v
           /\ v_chals' = Append(v_chals, i.chal)
    /\ v_st' = "Active"
    /\ p2v' = Tail(p2v)
    /\ v_pc' = v_pc + 1
    /\ UNCHANGED <<txunit, itunit, evunit, fs_cfg, p_buf, cvunit, plunit, pside, v_res, v2p, prog, v_trip, v_logs, cheated>>

\* MemoryVerifier::write
VWrite ==
    /\ v_st \in {"None", "Active"}
    /\ v_pc < Len(prog)
    /\ NextGate.kind = "write"
    /\ p2v # <<>>
    /\ LET inst == IF v_st = "None" THEN VerifierNew ELSE verifier
           r == VerifierRemove(inst, NextGate.addr, Head(p2v))
           i == VerifierInsert(r.v, NextGate.addr, <<NextGate.val>>)
       IN  /\ verifier' = i.v
           /\ v_chals' = Append(v_chals, i.chal)
    /\ v_st' = "Active"
    /\ p2v' = Tail(p2v)
    /\ v_pc' = v_pc + 1
    /\ UNCHANGED <<txunit, itunit, evunit, fs_cfg, p_buf, cvunit, plunit, pside, v_res, v2p, prog, v_trip, v_logs, cheated>>

\* MemoryVerifier::finalize on None
VFinalizeNone ==
    /\ v_st = "None"
    /\ v_pc < Len(prog)
    /\ NextGate.kind = "finalize"
    /\ v_st' = "Done"
    /\ v_res' = "ok"
    /\ v_pc' = v_pc + 1
    /\ UNCHANGED <<txunit, itunit, evunit, fs_cfg, p_buf, cvunit, plunit, pside, verifier, p2v, v2p, prog, v_chals, v_trip,
                   v_logs, cheated>>

\* faulty variant: the loop stops one address short of the space
VFinalizeDrainStopsShort ==
    /\ v_st = "Active"
    /\ v_pc < Len(prog)
    /\ NextGate.kind = "finalize"
    /\ Len(p2v) >= Len(Enumerate)
    /\ verifier' = VerifierDrain(verifier, SubSeq(Enumerate, 1, Len(Enumerate) - 1), p2v)
    /\ p2v' = SubSeq(p2v, Len(Enumerate), Len(p2v))
    /\ v_st' = "Drained"
    /\ UNCHANGED <<txunit, itunit, evunit, fs_cfg, p_buf, cvunit, plunit, pside, v_res, v_pc, v2p, prog, v_chals, v_trip,
                   v_logs, cheated>>

\* MemoryVerifier::finalize -> Verifier::finalize, the loop over
\* space.enumerate(): one commitment message is read per address
VFinalizeDrain ==
    /\ v_st = "Active"
    /\ v_pc < Len(prog)
    /\ NextGate.kind = "finalize"
    /\ Len(p2v) >= Len(Enumerate)
    /\ verifier' = VerifierDrain(verifier, Enumerate, p2v)
    /\ p2v' = SubSeq(p2v, Len(Enumerate) + 1, Len(p2v))
    /\ v_st' = "Drained"
    /\ UNCHANGED <<txunit, itunit, evunit, fs_cfg, p_buf, cvunit, plunit, pside, v_res, v_pc, v2p, prog, v_chals, v_trip,
                   v_logs, cheated>>

\* Verifier::finalize from V::random on: sample, send and flush, collapse,
\* clear the logs, run the two permutation checks
VFinalizeCheck(c1, c2, c3) ==
    /\ v_st = "Drained"
    /\ LET ok == VerifierCheck(verifier, c1, c2, c3)
       IN  v_res' = IF ok THEN "ok" ELSE "fail"
    /\ v_logs' = [rds |-> verifier.rds, wrs |-> verifier.wrs]
    /\ verifier' = [verifier EXCEPT !.rds = <<>>, !.wrs = <<>>]
    /\ v_trip' = <<c1, c2, c3>>
    /\ v2p' = v2p \o <<c1, c2, c3>>
    /\ v_st' = "Done"
    /\ v_pc' = v_pc + 1
    /\ UNCHANGED <<txunit, itunit, evunit, fs_cfg, p_buf, cvunit, plunit, pside, p2v, prog, v_chals, cheated>>

ProverStep ==
    \/ \E a \in Addrs : PRead(a)
    \/ \E a \in Addrs, val \in Vals : PWrite(a, val)
    \/ PFinalizeNone
    \/ PFinalizeDrain
    \/ PFinalizeCheck

VerifierStep ==
    \/ VRead
    \/ VWrite
    \/ VFinalizeNone
    \/ VFinalizeDrain
    \/ \E c1, c2, c3 \in Chals : VFinalizeCheck(c1, c2, c3)

\* Both parties evaluate the same circuit through their facades and finalize
\* once at its end.
Next == ProverStep \/ VerifierStep

Spec == Init /\ [][Next]_vars

\* ------------------------------------------------------ a cheating Prover
\* MemoryProver::read in which remove commits to the value fake instead of
\* the stored one (one corrupted entry of rds); the per-write challenge
\* material is the stored one
PReadCheat(a, fake) ==
    /\ ~cheated
    /\ p_st \in {"None", "Active"}
    /\ Len(prog) < MaxOps
    /\ LET inst == IF p_st = "None" THEN ProverNew ELSE prover
           old == MemoryRemove(inst, a)
       IN  /\ fake # old[1]
           /\ LET r == ProverCommit(inst, a, <<fake>> \o Tail(old))
                  i == ProverInsert(r.p, a, r.value)
              IN  /\ prover' = i.p
                  /\ p_st' = IF i.panic THEN "Panic" ELSE "Active"
                  /\ p2v' = Append(p2v, r.msg)
                  /\ p_ret' = [kind |-> "read", addr |-> a, val |-> r.value[1]]
                  /\ p_chals' = IF i.panic THEN p_chals ELSE Append(p_chals, i.chal)
    /\ cheated' = TRUE
    /\ prog' = Append(prog, [kind |-> "read", addr |-> a, val |-> 0])
    /\ UNCHANGED <<txunit, itunit, evunit, fs_cfg, p_buf, cvunit, plunit, vside, p_res, v2p, written, p_trip>>

NextCheat ==
    \/ Next
    \/ \E a \in Addrs, fake \in Vals : PReadCheat(a, fake)

SpecCheat == Init /\ [][NextCheat]_vars

\* ------------------------------------ the Prover driven call by call
\* Prover::remove called on its own (as the tests do)
PRemoveCall(a) ==
    /\ p_st \in {"None", "Active"}
    /\ Len(prog) < MaxOps
    /\ LET inst == IF p_st = "None" THEN ProverNew ELSE prover
           r == ProverRemove(inst, a)
       IN  /\ prover' = r.p
           /\ p2v' = Append(p2v, r.msg)
           /\ p_ret' = [kind |-> "remove", addr |-> a, val |-> r.value[1]]
    /\ p_st' = "Active"
    /\ prog' = Append(prog, [kind |-> "remove", addr |-> a, val |-> 0])
    /\ UNCHANGED <<txunit, itunit, evunit, fs_cfg, p_buf, cvunit, plunit, vside, p_res, v2p, written, p_chals, p_trip, cheated>>

\* Prover::insert called on its own
PInsertCall(a, val) ==
    /\ p_st \in {"None", "Active"}
    /\ Len(prog) < MaxOps
    /\ LET inst == IF p_st = "None" THEN ProverNew ELSE prover
           i == ProverInsert(inst, a, <<val>>)
       IN  /\ prover' = i.p
           /\ p_st' = IF i.panic THEN "Panic" ELSE "Active"
           /\ p_chals' = IF i.panic THEN p_chals ELSE Append(p_chals, i.chal)
    /\ p_ret' = [kind |-> "insert", addr |-> a, val |-> val]
    /\ prog' = Append(prog, [kind |-> "insert", addr |-> a, val |-> val])
    /\ UNCHANGED <<txunit, itunit, evunit, fs_cfg, p_buf, cvunit, plunit, vside, p_res, p2v, v2p, written, p_trip, cheated>>

NextLow ==
    \/ \E a \in Addrs : PRead(a)
    \/ \E a \in Addrs, val \in Vals : PWrite(a, val)
    \/ \E a \in Addrs : PRemoveCall(a)
    \/ \E a \in Addrs, val \in Vals : PInsertCall(a, val)
    \/ PFinalizeNone
    \/ PFinalizeDrain

SpecLow == Init /\ [][NextLow]_vars

\* --------------------------- both parties driven call by call
\* Verifier::remove called on its own
VRemoveCall ==
    /\ v_st \in {"None", "Active"}
    /\ v_pc < Len(prog)
    /\ NextGate.kind = "remove"
    /\ p2v # <<>>
    /\ LET inst == IF v_st = "None" THEN VerifierNew ELSE verifier
           r == VerifierRemove(inst, NextGate.addr, Head(p2v))
       IN  verifier' = r.v
    /\ v_st' = "Active"
    /\ p2v' = Tail(p2v)
    /\ v_pc' = v_pc + 1
    /\ UNCHANGED <<txunit, itunit, evunit, fs_cfg, p_buf, cvunit, plunit, pside, v_res, v2p, prog, v_chals, v_trip, v_logs,
                   cheated>>

\* Verifier::insert called on its own
VInsertCall ==
    /\ v_st \in {"None", "Active"}
    /\ v_pc < Len(prog)
    /\ NextGate.kind = "insert"
    /\ LET inst == IF v_st = "None" THEN VerifierNew ELSE verifier
           i == VerifierInsert(inst, NextGate.addr, <<NextGate.val>>)
       IN  /\ verifier' = i.v
           /\ v_chals' = Append(v_chals, i.chal)
    /\ v_st' = "Active"
    /\ v_pc' = v_pc + 1
    /\ UNCHANGED <<txunit, itunit, evunit, fs_cfg, p_buf, cvunit, plunit, pside, v_res, p2v, v2p, prog, v_trip, v_logs,
                   cheated>>

NextLowBoth ==
    \/ \E a \in Addrs : PRemoveCall(a)
    \/ \E a \in Addrs, val \in Vals : PInsertCall(a, val)
    \/ PFinalizeDrain
    \/ PFinalizeCheck
    \/ VRemoveCall
    \/ VInsertCall
    \/ VFinalizeDrain
    \/ \E c1, c2, c3 \in Chals : VFinalizeCheck(c1, c2, c3)

SpecLowBoth == Init /\ [][NextLowBoth]_vars

\* ------------------------------------------- a channel that fails
\* Prover::remove when the channel write under the first input1 fails: the
\* entry has been taken out of the map, write_bytes has absorbed the bytes,
\* and the Err is unwrap()ed (prover.rs:120)
ProverRemoveIoError(p, addr) ==
    LET m == Input1(MemoryRemove(p, addr), Len(p.tx))
    IN  [p EXCEPT !.memory[addr] = <<>>,
                  !.tx = TxUpdate(@, SubSeq(m.bytes, 1, 1))]

\* MemoryProver::read with that failure in its remove
PReadIoError(a) ==
    /\ p_st \in {"None", "Active"}
    /\ Len(prog) < MaxOps
    /\ prover' = ProverRemoveIoError(IF p_st = "None" THEN ProverNew ELSE prover, a)
    /\ p_st' = "Panic"
    /\ p_ret' = [kind |-> "ioerror", addr |-> a, val |-> 0]
    /\ prog' = Append(prog, [kind |-> "read", addr |-> a, val |-> 0])
    /\ UNCHANGED <<txunit, itunit, evunit, fs_cfg, p_buf, cvunit, plunit, vside, p_res, p2v, v2p, written, p_chals, p_trip,
                   cheated>>

\* MemoryProver::write with that failure in its remove
PWriteIoError(a, val) ==
    /\ p_st \in {"None", "Active"}
    /\ Len(prog) < MaxOps
    /\ prover' = ProverRemoveIoError(IF p_st = "None" THEN ProverNew ELSE prover, a)
    /\ p_st' = "Panic"
    /\ p_ret' = [kind |-> "ioerror", addr |-> a, val |-> val]
    /\ prog' = Append(prog, [kind |-> "write", addr |-> a, val |-> val])
    /\ UNCHANGED <<txunit, itunit, evunit, fs_cfg, p_buf, cvunit, plunit, vside, p_res, p2v, v2p, written, p_chals, p_trip,
                   cheated>>

\* Prover::finalize when read_serializable fails after the drain: the Err is
\* unwrap()ed (prover.rs:194)
PFinalizeIoError ==
    /\ p_st = "Drained"
    /\ p_st' = "Panic"
    /\ p_ret' = [kind |-> "ioerror", addr |-> 0, val |-> 0]
    /\ UNCHANGED <<txunit, itunit, evunit, fs_cfg, p_buf, cvunit, plunit, vside, prover, p_res, p2v, v2p, prog, written,
                   p_chals, p_trip, cheated>>

NextIo ==
    \/ Next
    \/ \E a \in Addrs : PReadIoError(a)
    \/ \E a \in Addrs, val \in Vals : PWriteIoError(a, val)
    \/ PFinalizeIoError

SpecIo == Init /\ [][NextIo]_vars

\* ------------------------------------------------- a TxChannel on its own
Bufs == {<<0>>, <<1>>, <<1, 0>>}

\* faulty variant: the underlying write comes first and its error returns
\* before the update
TxWriteBytesWritesFirst(buf, ok) ==
    /\ Len(t_hist) < MaxOps
    /\ t_tx' = IF ok THEN TxUpdate(t_tx, buf) ELSE t_tx
    /\ t_sent' = IF ok THEN t_sent \o buf ELSE t_sent
    /\ t_out' = [res |-> IF ok THEN "ok" ELSE "err", chal |-> <<>>]
    /\ t_hist' = Append(t_hist, [op |-> "write", buf |-> buf, ok |-> ok, n |-> 0])
    /\ UNCHANGED <<ram, itunit, evunit, fs_cfg, p_buf, cvunit, plunit>>

\* TxChannel::write_bytes: update, then the underlying write (ok: it succeeds)
TxWriteBytes(buf, ok) ==
    /\ Len(t_hist) < MaxOps
    /\ t_tx' = TxUpdate(t_tx, buf)
    /\ t_sent' = IF ok THEN t_sent \o buf ELSE t_sent
    /\ t_out' = [res |-> IF ok THEN "ok" ELSE "err", chal |-> <<>>]
    /\ t_hist' = Append(t_hist, [op |-> "write", buf |-> buf, ok |-> ok, n |-> 0])
    /\ UNCHANGED <<ram, itunit, evunit, fs_cfg, p_buf, cvunit, plunit>>

\* faulty variant: the result of the underlying read is dropped
TxReadBytesSwallowsError(buf, ok) ==
    /\ Len(t_hist) < MaxOps
    /\ t_tx' = IF ok THEN TxUpdate(t_tx, buf) ELSE t_tx
    /\ t_out' = [res |-> "ok", chal |-> <<>>]
    /\ t_hist' = Append(t_hist, [op |-> "read", buf |-> buf, ok |-> ok, n |-> 0])
    /\ UNCHANGED <<t_sent, ram, itunit, evunit, fs_cfg, p_buf, cvunit, plunit>>

\* TxChannel::read_bytes: the underlying read (ok: it succeeds and fills buf),
\* then update; a failed read returns before the update
TxReadBytes(buf, ok) ==
    /\ Len(t_hist) < MaxOps
    /\ t_tx' = IF ok THEN TxUpdate(t_tx, buf) ELSE t_tx
    /\ t_out' = [res |-> IF ok THEN "ok" ELSE "err", chal |-> <<>>]
    /\ t_hist' = Append(t_hist, [op |-> "read", buf |-> buf, ok |-> ok, n |-> 0])
    /\ UNCHANGED <<t_sent, ram, itunit, evunit, fs_cfg, p_buf, cvunit, plunit>>

\* faulty variant: the digest is taken with finalize-and-reset
TxChallengeCallResets(n) ==
    /\ Len(t_hist) < MaxOps
    /\ t_out' = [res |-> "chal", chal |-> TxChallenge(t_tx, n)]
    /\ t_hist' = Append(t_hist, [op |-> "challenge", buf |-> <<>>, ok |-> TRUE, n |-> n])
    /\ t_tx' = <<>>
    /\ UNCHANGED <<t_sent, ram, itunit, evunit, fs_cfg, p_buf, cvunit, plunit>>

\* faulty variant: the challenge is absorbed into the hasher it came from
TxChallengeCallAbsorbs(n) ==
    /\ Len(t_hist) < MaxOps
    /\ t_out' = [res |-> "chal", chal |-> TxChallenge(t_tx, n)]
    /\ t_hist' = Append(t_hist, [op |-> "challenge", buf |-> <<>>, ok |-> TRUE, n |-> n])
    /\ t_tx' = TxUpdate(t_tx, TxChallenge(t_tx, n))
    /\ UNCHANGED <<t_sent, ram, itunit, evunit, fs_cfg, p_buf, cvunit, plunit>>

\* TxChannel::challenge::<F, N>
TxChallengeCall(n) ==
    /\ Len(t_hist) < MaxOps
    /\ t_out' = [res |-> "chal", chal |-> TxChallenge(t_tx, n)]
    /\ t_hist' = Append(t_hist, [op |-> "challenge", buf |-> <<>>, ok |-> TRUE, n |-> n])
    /\ UNCHANGED <<t_tx, t_sent, ram, itunit, evunit, fs_cfg, p_buf, cvunit, plunit>>

\* TxChannel::flush
TxFlush(ok) ==
    /\ Len(t_hist) < MaxOps
    /\ t_out' = [res |-> IF ok THEN "ok" ELSE "err", chal |-> <<>>]
    /\ t_hist' = Append(t_hist, [op |-> "flush", buf |-> <<>>, ok |-> ok, n |-> 0])
    /\ UNCHANGED <<t_tx, t_sent, ram, itunit, evunit, fs_cfg, p_buf, cvunit, plunit>>

NextTx ==
    \/ \E buf \in Bufs, ok \in BOOLEAN : TxWriteBytes(buf, ok)
    \/ \E buf \in Bufs, ok \in BOOLEAN : TxReadBytes(buf, ok)
    \/ \E n \in 1 .. 3 : TxChallengeCall(n)
    \/ \E ok \in BOOLEAN : TxFlush(ok)

SpecTx == Init /\ [][NextTx]_vars

\* faulty variant: clone hands out a second channel with a copy of the hasher
TxCloneCopies ==
    /\ Len(t_hist) < MaxOps
    /\ t_out' = [res |-> "channel", chal |-> t_tx]
    /\ t_hist' = Append(t_hist, [op |-> "clone", buf |-> <<>>, ok |-> TRUE, n |-> 0])
    /\ UNCHANGED <<t_tx, t_sent, ram, itunit, evunit, fs_cfg, p_buf, cvunit, plunit>>

\* TxChannel::clone: unimplemented!(), the call panics
TxClone ==
    /\ Len(t_hist) < MaxOps
    /\ t_out' = [res |-> "panic", chal |-> <<>>]
    /\ t_hist' = Append(t_hist, [op |-> "clone", buf |-> <<>>, ok |-> FALSE, n |-> 0])
    /\ UNCHANGED <<t_tx, t_sent, ram, itunit, evunit, fs_cfg, p_buf, cvunit, plunit>>

NextTxClone ==
    \/ NextTx
    \/ TxClone

SpecTxClone == Init /\ [][NextTxClone]_vars


\* ------------------------------------------- a Bounded space on its own
\* Bounded::new(bound)
BoundedNew(b) ==
    /\ it_bound' = b
    /\ it_cur' = 0
    /\ it_rem' = -1
    /\ it_out' = <<>>
    /\ it_prev' = <<>>
    /\ it_done' = FALSE
    /\ UNCHANGED <<ram, txunit, evunit, fs_cfg, p_buf, cvunit, plunit>>

\* Bounded::enumerate: a new iterator, current = ZERO and rem = bound
EnumerateCall ==
    /\ it_cur' = 0
    /\ it_rem' = it_bound
    /\ it_prev' = it_out
    /\ it_out' = <<>>
    /\ it_done' = FALSE
    /\ UNCHANGED <<it_bound, ram, txunit, evunit, fs_cfg, p_buf, cvunit, plunit>>

\* faulty variant: current is incremented before it is copied out
IterNextIncrementsFirst ==
    /\ it_rem >= 0
    /\ IF it_rem > 0
       THEN /\ it_out' = Append(it_out, FAdd(it_cur, 1))
            /\ it_cur' = FAdd(it_cur, 1)
            /\ it_rem' = it_rem - 1
            /\ UNCHANGED it_done
       ELSE /\ it_done' = TRUE
            /\ UNCHANGED <<it_out, it_cur, it_rem>>
    /\ UNCHANGED <<it_bound, it_prev, ram, txunit, evunit, fs_cfg, p_buf, cvunit, plunit>>

\* BoundedIter::next
IterNext ==
    /\ it_rem >= 0
    /\ IF it_rem > 0
       THEN /\ it_out' = Append(it_out, it_cur)
            /\ it_cur' = FAdd(it_cur, 1)
            /\ it_rem' = it_rem - 1
            /\ UNCHANGED it_done
       ELSE /\ it_done' = TRUE
            /\ UNCHANGED <<it_out, it_cur, it_rem>>
    /\ UNCHANGED <<it_bound, it_prev, ram, txunit, evunit, fs_cfg, p_buf, cvunit, plunit>>

NextEnum ==
    \/ \E b \in 0 .. MaxBound : BoundedNew(b)
    \/ EnumerateCall
    \/ IterNext

SpecEnum == Init /\ [][NextEnum]_vars

\* ------------------------------------------------------- the evaluator
\* the gates issued so far, over all backends
GatesIssued ==
    Cardinality({<<b, k>> \in Backends \X (1 .. MaxOps) :
                    k \in DOMAIN ev_log[b] /\ ev_log[b][k] \in {"gate", "gate_err"}})

\* eval_gate on a ram_read / ram_write gate of backend b (ok: the backend's
\* ram_read / ram_write returns Ok); an Err ends evaluate_gates through ?
EvalRamGate(b, ok) ==
    /\ ev_pc = "gates"
    /\ GatesIssued < MaxOps
    /\ ev_log' = [ev_log EXCEPT ![b] = Append(@, IF ok THEN "gate" ELSE "gate_err")]
    /\ ev_pc' = IF ok THEN "gates" ELSE "returned"
    /\ ev_result' = IF ok THEN ev_result ELSE "err"
    /\ UNCHANGED <<ev_i, ev_step, ram, txunit, itunit, fs_cfg, p_buf, cvunit, plunit>>

\* evaluate_gates: every gate has passed, finish() starts with backend 0
EvalFinish ==
    /\ ev_pc = "gates"
    /\ ev_pc' = "finish"
    /\ ev_i' = 1
    /\ ev_step' = "conv"
    /\ UNCHANGED <<ev_log, ev_result, ram, txunit, itunit, fs_cfg, p_buf, cvunit, plunit>>

\* one step of EvaluatorSingle::finalize on backend ev_i: the call named
\* step, followed by ? ; after the last one finish() goes to the next backend
FinalizeStepOf(step, then, ok) ==
    /\ ev_pc = "finish"
    /\ ev_step = step
    /\ ev_log' = [ev_log EXCEPT ![ev_i] = Append(@, IF ok THEN step ELSE step \o "_err")]
    /\ IF ~ok
       THEN /\ ev_pc' = "returned"
            /\ ev_result' = "err"
            /\ UNCHANGED <<ev_i, ev_step>>
       ELSE IF then # "end"
       THEN /\ ev_step' = then
            /\ UNCHANGED <<ev_pc, ev_i, ev_result>>
       ELSE IF ev_i < MaxBackends
       THEN /\ ev_i' = ev_i + 1
            /\ ev_step' = "conv"
            /\ UNCHANGED <<ev_pc, ev_result>>
       ELSE /\ ev_pc' = "returned"
            /\ ev_result' = "ok"
            /\ UNCHANGED <<ev_i, ev_step>>
    /\ UNCHANGED <<ram, txunit, itunit, fs_cfg, p_buf, cvunit, plunit>>

\* self.backend.finalize_conv()?
FinalizeConv(ok) == FinalizeStepOf("conv", "disj", ok)

\* faulty variant: the result of finalize_disj is dropped
FinalizeDisjIgnoresError(ok) ==
    /\ ev_pc = "finish"
    /\ ev_step = "disj"
    /\ ev_log' = [ev_log EXCEPT ![ev_i] = Append(@, IF ok THEN "disj" ELSE "disj_err")]
    /\ ev_step' = "ram"
    /\ UNCHANGED <<ev_pc, ev_i, ev_result, ram, txunit, itunit, fs_cfg, p_buf, cvunit, plunit>>

\* self.backend.finalize_disj()?
FinalizeDisj(ok) == FinalizeStepOf("disj", "ram", ok)

\* self.backend.finalize_ram()?
FinalizeRam(ok) == FinalizeStepOf("ram", "mac", ok)

\* self.backend.finalize()?
FinalizeBackend(ok) == FinalizeStepOf("mac", "end", ok)

NextEval ==
    \/ \E b \in Backends, ok \in BOOLEAN : EvalRamGate(b, ok)
    \/ EvalFinish
    \/ \E ok \in BOOLEAN : FinalizeConv(ok)
    \/ \E ok \in BOOLEAN : FinalizeDisj(ok)
    \/ \E ok \in BOOLEAN : FinalizeRam(ok)
    \/ \E ok \in BOOLEAN : FinalizeBackend(ok)

SpecEval == Init /\ [][NextEval]_vars

\* ------------------------------------- the facade used again after finalize
\* MemoryProver::finalize takes the instance out of the Option
\* (self.prover.take()), so the facade holds None again: a later read goes
\* through the None arm and creates a fresh instance
PReadAfterFinalize(a) ==
    /\ p_st = "Done"
    /\ Len(prog) < MaxOps
    /\ LET r == ProverRemove(ProverNew, a)
           i == ProverInsert(r.p, a, r.value)
       IN  /\ prover' = i.p
           /\ p_st' = IF i.panic THEN "Panic" ELSE "Active"
           /\ p2v' = Append(p2v, r.msg)
           /\ p_ret' = [kind |-> "read", addr |-> a, val |-> r.value[1]]
           /\ p_chals' = IF i.panic THEN p_chals ELSE Append(p_chals, i.chal)
    /\ prog' = Append(prog, [kind |-> "read", addr |-> a, val |-> 0])
    /\ UNCHANGED <<txunit, itunit, evunit, fs_cfg, p_buf, cvunit, plunit, vside, p_res, v2p, written, p_trip, cheated>>

\* MemoryProver::write on a facade that has been finalized
PWriteAfterFinalize(a, val) ==
    /\ p_st = "Done"
    /\ Len(prog) < MaxOps
    /\ LET r == ProverRemove(ProverNew, a)
           i == ProverInsert(r.p, a, <<val>>)
       IN  /\ prover' = i.p
           /\ p_st' = IF i.panic THEN "Panic" ELSE "Active"
           /\ p2v' = Append(p2v, r.msg)
           /\ p_chals' = IF i.panic THEN p_chals ELSE Append(p_chals, i.chal)
    /\ p_ret' = [kind |-> "write", addr |-> a, val |-> val]
    /\ written' = [written EXCEPT ![a] = val]
    /\ prog' = Append(prog, [kind |-> "write", addr |-> a, val |-> val])
    /\ UNCHANGED <<txunit, itunit, evunit, fs_cfg, p_buf, cvunit, plunit, vside, p_res, v2p, p_trip, cheated>>

NextReuse ==
    \/ Next
    \/ \E a \in Addrs : PReadAfterFinalize(a)
    \/ \E a \in Addrs, val \in Vals : PWriteAfterFinalize(a, val)

SpecReuse == Init /\ [][NextReuse]_vars


\* ----------------------------------- address wires with their MAC tags
\* An authenticated address wire as the Prover holds it: MacProver(value, tag)
\* (two address values and two tags are the input alphabet)
Tags == {0, 1}
WireAddrs == {0, 1}
Wires == [value : WireAddrs, tag : Tags]

\* faulty variant: the map key is taken from the whole wire, tag included
WireKeyWithTag(w) == FAdd(w.value, w.tag)

\* the key of the Memory Map: addr.iter().map(|v| v.value()).collect()
WireKey(w) == w.value

\* Prover::remove on the wire w
PRemoveWire(w) ==
    /\ p_st \in {"None", "Active"}
    /\ Len(prog) < MaxOps
    /\ LET inst == IF p_st = "None" THEN ProverNew ELSE prover
           r == ProverRemove(inst, WireKey(w))
       IN  /\ prover' = r.p
           /\ p2v' = Append(p2v, r.msg)
           /\ p_ret' = [kind |-> "remove", addr |-> w.value, val |-> r.value[1]]
    /\ p_st' = "Active"
    /\ prog' = Append(prog, [kind |-> "remove", addr |-> w.value, val |-> 0, tag |-> w.tag])
    /\ UNCHANGED <<txunit, itunit, evunit, fs_cfg, p_buf, cvunit, plunit, vside, p_res, v2p,
                   written, p_chals, p_trip, cheated>>

\* Prover::insert on the wire w
PInsertWire(w, val) ==
    /\ p_st \in {"None", "Active"}
    /\ Len(prog) < MaxOps
    /\ LET inst == IF p_st = "None" THEN ProverNew ELSE prover
           i == ProverInsert(inst, WireKey(w), <<val>>)
       IN  /\ prover' = i.p
           /\ p_st' = IF i.panic THEN "Panic" ELSE "Active"
           /\ p_chals' = IF i.panic THEN p_chals ELSE Append(p_chals, i.chal)
    /\ p_ret' = [kind |-> "insert", addr |-> w.value, val |-> val]
    /\ prog' = Append(prog, [kind |-> "insert", addr |-> w.value, val |-> val, tag |-> w.tag])
    /\ UNCHANGED <<txunit, itunit, evunit, fs_cfg, p_buf, cvunit, plunit, vside, p_res, p2v, v2p,
                   written, p_trip, cheated>>

\* MemoryProver::read on the wire w
PReadWire(w) ==
    /\ p_st \in {"None", "Active"}
    /\ Len(prog) < MaxOps
    /\ LET inst == IF p_st = "None" THEN ProverNew ELSE prover
           r == ProverRemove(inst, WireKey(w))
           i == ProverInsert(r.p, WireKey(w), r.value)
       IN  /\ prover' = i.p
           /\ p_st' = IF i.panic THEN "Panic" ELSE "Active"
           /\ p2v' = Append(p2v, r.msg)
           /\ p_ret' = [kind |-> "read", addr |-> w.value, val |-> r.value[1]]
           /\ p_chals' = IF i.panic THEN p_chals ELSE Append(p_chals, i.chal)
    /\ prog' = Append(prog, [kind |-> "read", addr |-> w.value, val |-> 0, tag |-> w.tag])
    /\ UNCHANGED <<txunit, itunit, evunit, fs_cfg, p_buf, cvunit, plunit, vside, p_res, v2p,
                   written, p_trip, cheated>>

\* MemoryProver::write on the wire w
PWriteWire(w, val) ==
    /\ p_st \in {"None", "Active"}
    /\ Len(prog) < MaxOps
    /\ LET inst == IF p_st = "None" THEN ProverNew ELSE prover
           r == ProverRemove(inst, WireKey(w))
           i == ProverInsert(r.p, WireKey(w), <<val>>)
       IN  /\ prover' = i.p
           /\ p_st' = IF i.panic THEN "Panic" ELSE "Active"
           /\ p2v' = Append(p2v, r.msg)
           /\ p_chals' = IF i.panic THEN p_chals ELSE Append(p_chals, i.chal)
    /\ p_ret' = [kind |-> "write", addr |-> w.value, val |-> val]
    /\ written' = [written EXCEPT ![w.value] = val]
    /\ prog' = Append(prog, [kind |-> "write", addr |-> w.value, val |-> val, tag |-> w.tag])
    /\ UNCHANGED <<txunit, itunit, evunit, fs_cfg, p_buf, cvunit, plunit, vside, p_res, v2p,
                   p_trip, cheated>>

NextWire ==
    \/ \E w \in Wires : PRemoveWire(w)
    \/ \E w \in Wires, val \in Vals : PInsertWire(w, val)
    \/ \E w \in Wires : PReadWire(w)
    \/ \E w \in Wires, val \in Vals : PWriteWire(w, val)

SpecWire == Init /\ [][NextWire]_vars

\* ------------------------------------- combine and collapse_vecs on their own
\* the tuples combine is called on (at least one element, at most a record)
CvTuples == UNION {[1 .. n -> Field] : n \in 1 .. Dim}
\* the logs collapse_vecs is called on: records of one width (address and value)
CvLogs == UNION {[1 .. k -> [1 .. (DIM_ADDR + DIM_VALUE) -> Field]] : k \in 0 .. RamSize}

\* combine(backend, elems, x), called once
CombineCall(t, x) ==
    /\ cv_in.kind = "none"
    /\ cv_in' = [kind |-> "combine", arg |-> t, x |-> x]
    /\ cv_out' = <<Combine(t, x)>>
    /\ UNCHANGED <<ram, txunit, itunit, evunit, fs_cfg, p_buf, plunit>>

\* collapse_vecs(backend, elems, x), called once
CollapseCall(log, x) ==
    /\ cv_in.kind = "none"
    /\ cv_in' = [kind |-> "collapse", arg |-> log, x |-> x]
    /\ cv_out' = CollapseVecs(log, x)
    /\ UNCHANGED <<ram, txunit, itunit, evunit, fs_cfg, p_buf, plunit>>

NextCombine ==
    \/ \E t \in CvTuples, x \in Field : CombineCall(t, x)
    \/ \E log \in CvLogs, x \in Field : CollapseCall(log, x)

SpecCombine == Init /\ [][NextCombine]_vars

\* ------------------------------------------- a channel with buffered writes
\* The parties' channels write through a BufWriter (tests.rs): what the
\* Prover writes stays in p_buf until a flush, or until the BufWriter writes
\* its contents out on its own.
\* MemoryProver::read, the commitments left in the write buffer
BRead(a) ==
    /\ p_st \in {"None", "Active"}
    /\ Len(prog) < MaxOps
    /\ LET inst == IF p_st = "None" THEN ProverNew ELSE prover
           r == ProverRemove(inst, a)
           i == ProverInsert(r.p, a, r.value)
       IN  /\ prover' = i.p
           /\ p_st' = IF i.panic THEN "Panic" ELSE "Active"
           /\ p_buf' = Append(p_buf, r.msg)
           /\ p_ret' = [kind |-> "read", addr |-> a, val |-> r.value[1]]
           /\ p_chals' = IF i.panic THEN p_chals ELSE Append(p_chals, i.chal)
    /\ prog' = Append(prog, [kind |-> "read", addr |-> a, val |-> 0])
    /\ UNCHANGED <<txunit, itunit, evunit, fs_cfg, cvunit, plunit, vside, p_res, p2v, v2p,
                   written, p_trip, cheated>>

\* MemoryProver::write, the commitments left in the write buffer
BWrite(a, val) ==
    /\ p_st \in {"None", "Active"}
    /\ Len(prog) < MaxOps
    /\ LET inst == IF p_st = "None" THEN ProverNew ELSE prover
           r == ProverRemove(inst, a)
           i == ProverInsert(r.p, a, <<val>>)
       IN  /\ prover' = i.p
           /\ p_st' = IF i.panic THEN "Panic" ELSE "Active"
           /\ p_buf' = Append(p_buf, r.msg)
           /\ p_chals' = IF i.panic THEN p_chals ELSE Append(p_chals, i.chal)
    /\ p_ret' = [kind |-> "write", addr |-> a, val |-> val]
    /\ written' = [written EXCEPT ![a] = val]
    /\ prog' = Append(prog, [kind |-> "write", addr |-> a, val |-> val])
    /\ UNCHANGED <<txunit, itunit, evunit, fs_cfg, cvunit, plunit, vside, p_res, p2v, v2p,
                   p_trip, cheated>>

\* the BufWriter is full and writes its contents to the socket
BSpill ==
    /\ p_buf # <<>>
    /\ p2v' = p2v \o p_buf
    /\ p_buf' = <<>>
    /\ UNCHANGED <<txunit, itunit, evunit, fs_cfg, cvunit, plunit, vside, pside, v2p, prog, cheated>>

\* faulty variant: finalize goes to read the challenges without a flush
BFinalizeDrainNoFlush ==
    /\ p_st = "Active"
    /\ LET d == ProverDrain(prover, Enumerate, <<>>)
       IN  /\ prover' = d.p
           /\ p_buf' = p_buf \o d.msgs
           /\ p_st' = IF Len(d.p.rds) = Len(d.p.wrs) THEN "Drained" ELSE "Panic"
    /\ prog' = Append(prog, [kind |-> "finalize", addr |-> 0, val |-> 0])
    /\ UNCHANGED <<txunit, itunit, evunit, fs_cfg, cvunit, plunit, vside, p_res, p2v, v2p, p_ret,
                   written, p_chals, p_trip, cheated>>

\* Prover::finalize up to the blocking read of the challenges: the drain
\* writes into the buffer, prover.channel.flush() empties it into the channel
BFinalizeDrain ==
    /\ p_st = "Active"
    /\ LET d == ProverDrain(prover, Enumerate, <<>>)
       IN  /\ prover' = d.p
           /\ p2v' = p2v \o p_buf \o d.msgs
           /\ p_st' = IF Len(d.p.rds) = Len(d.p.wrs) THEN "Drained" ELSE "Panic"
    /\ p_buf' = <<>>
    /\ prog' = Append(prog, [kind |-> "finalize", addr |-> 0, val |-> 0])
    /\ UNCHANGED <<txunit, itunit, evunit, fs_cfg, cvunit, plunit, vside, p_res, v2p, p_ret,
                   written, p_chals, p_trip, cheated>>

\* the address the accesses of a run go to (test_size_steps_ram uses one
\* address for all its steps)
LiveAddrs == {0}

\* the Prover's finalize, in its two halves
BufProverFinalize ==
    \/ PFinalizeNone
    \/ BFinalizeDrain
    \/ PFinalizeCheck

NextBuf ==
    \/ \E a \in LiveAddrs : BRead(a)
    \/ \E a \in LiveAddrs, val \in Vals : BWrite(a, val)
    \/ BufProverFinalize
    \/ BSpill
    \/ VerifierStep

\* Each party is a thread of its own that runs whenever it is not blocked on
\* a read, and the Prover's sequence of accesses ends with finalize.  The
\* BufWriter need never write out on its own.
SpecLive ==
    /\ Init
    /\ [][NextBuf]_vars
    /\ WF_vars(BufProverFinalize)
    /\ WF_vars(VerifierStep)

\* ------------------------------------------------- the RAM plugin's gates
\* Wire ranges (first, last) as plugin_call_gate receives them, and the
\* operation names a circuit may give (one of them unsupported)
GateRanges == {<<0, 0>>, <<1, 1>>, <<0, 1>>}
RangeLists(n) == UNION {[1 .. k -> GateRanges] : k \in 0 .. n}
Operations == {"read", "write", "erase"}

\* what the backend's RAM returns for addr after the calls made so far
RECURSIVE RamValue(_, _)
RamValue(calls, addr) ==
    IF calls = <<>> THEN 0
    ELSE LET c == calls[Len(calls)]
         IN  IF c.op = "write" /\ c.addr = addr /\ c.ok THEN c.val
             ELSE RamValue(SubSeq(calls, 1, Len(calls) - 1), addr)

\* RamV0::instantiate(operation, .., input_counts, ..) with n_in entries in
\* input_counts: panic on another operation name, and on field.unwrap()
\* when there is no input
RamInstantiate(operation, n_in) ==
    /\ pl_res \in {"none", "ok"}
    /\ Len(pl_hist) < MaxGates
    /\ pl_op' = operation
    /\ pl_res' = IF operation \notin {"read", "write"} \/ n_in = 0 THEN "panic" ELSE "ok"
    /\ UNCHANGED <<pl_wires, pl_calls, pl_hist, ram, txunit, itunit, evunit, fs_cfg, p_buf, cvunit>>

\* faulty variant: the value read is set on every wire of the output range
PluginCallReadFillsRange(inputs, outputs, ok) ==
    /\ pl_op = "read"
    /\ pl_res = "ok"
    /\ Len(pl_hist) < MaxGates
    /\ pl_hist' = Append(pl_hist, [op |-> "read", inputs |-> inputs, outputs |-> outputs])
    /\ IF Len(inputs) # 1 \/ Len(outputs) # 1
       THEN pl_res' = "panic" /\ UNCHANGED <<pl_wires, pl_calls>>
       ELSE LET addr == pl_wires[inputs[1][1]]
                value == RamValue(pl_calls, addr)
            IN  /\ pl_calls' = Append(pl_calls, [op |-> "read", addr |-> addr,
                                                  val |-> value, ok |-> ok])
                /\ IF ~ok THEN pl_res' = "err" /\ UNCHANGED pl_wires
                   ELSE /\ pl_res' = "ok"
                        /\ pl_wires' = [w \in GateWires |->
                                           IF outputs[1][1] <= w /\ w <= outputs[1][2]
                                           THEN value ELSE pl_wires[w]]
    /\ UNCHANGED <<pl_op, ram, txunit, itunit, evunit, fs_cfg, p_buf, cvunit>>

\* plugin_call_gate, PluginExecution::Ram with RamOperation::Read (ok: the
\* backend's ram_read returns Ok)
PluginCallRead(inputs, outputs, ok) ==
    /\ pl_op = "read"
    /\ pl_res = "ok"
    /\ Len(pl_hist) < MaxGates
    /\ pl_hist' = Append(pl_hist, [op |-> "read", inputs |-> inputs, outputs |-> outputs])
    /\ IF Len(inputs) # 1 \/ Len(outputs) # 1
       THEN pl_res' = "panic" /\ UNCHANGED <<pl_wires, pl_calls>>
       ELSE LET addr == pl_wires[inputs[1][1]]
                value == RamValue(pl_calls, addr)
            IN  /\ pl_calls' = Append(pl_calls, [op |-> "read", addr |-> addr,
                                                  val |-> value, ok |-> ok])
                /\ IF ~ok THEN pl_res' = "err" /\ UNCHANGED pl_wires
                   ELSE IF outputs[1][1] # outputs[1][2]
                        THEN pl_res' = "panic" /\ UNCHANGED pl_wires
                        ELSE /\ pl_res' = "ok"
                             /\ pl_wires' = [pl_wires EXCEPT ![outputs[1][1]] = value]
    /\ UNCHANGED <<pl_op, ram, txunit, itunit, evunit, fs_cfg, p_buf, cvunit>>

\* plugin_call_gate, PluginExecution::Ram with RamOperation::Write (ok: the
\* backend's ram_write returns Ok)
PluginCallWrite(inputs, outputs, ok) ==
    /\ pl_op = "write"
    /\ pl_res = "ok"
    /\ Len(pl_hist) < MaxGates
    /\ pl_hist' = Append(pl_hist, [op |-> "write", inputs |-> inputs, outputs |-> outputs])
    /\ IF Len(inputs) # 2 \/ Len(outputs) # 0
       THEN pl_res' = "panic" /\ UNCHANGED pl_calls
       ELSE LET addr == pl_wires[inputs[1][1]]
                value == pl_wires[inputs[2][1]]
            IN  /\ pl_calls' = Append(pl_calls, [op |-> "write", addr |-> addr,
                                                  val |-> value, ok |-> ok])
                /\ pl_res' = IF ok THEN "ok" ELSE "err"
    /\ UNCHANGED <<pl_op, pl_wires, ram, txunit, itunit, evunit, fs_cfg, p_buf, cvunit>>

NextPlugin ==
    \/ \E operation \in Operations, n_in \in 0 .. 2 : RamInstantiate(operation, n_in)
    \/ \E inputs \in RangeLists(3), outputs \in RangeLists(2), ok \in BOOLEAN :
          PluginCallRead(inputs, outputs, ok)
    \/ \E inputs \in RangeLists(3), outputs \in RangeLists(2), ok \in BOOLEAN :
          PluginCallWrite(inputs, outputs, ok)

SpecPlugin == Init /\ [][NextPlugin]_vars


\* --------------------------------------------- the challenge-mode switch
\* The field V the two parties are instantiated over decides
\* fiat_shamir::<V>(), the switch DoraVerifier::compact consults.  The RAM's
\* finalize (PFinalizeDrain / PFinalizeCheck, VFinalizeDrain /
\* VFinalizeCheck) has no branch on it.
Configure(fs) ==
    /\ p_st = "None"
    /\ v_st = "None"
    /\ prog = <<>>
    /\ fs_cfg' = fs
    /\ UNCHANGED <<ram, txunit, itunit, evunit, p_buf, cvunit, plunit>>

NextModes ==
    \/ Next
    \/ \E fs \in BOOLEAN : Configure(fs)

SpecModes == Init /\ [][NextModes]_vars

\* ================================================================= claims
BagOfSeq(sq) ==
    [x \in {sq[i] : i \in DOMAIN sq} |-> Cardinality({i \in DOMAIN sq : sq[i] = x})]

IsPrefix(sq, tq) == Len(sq) <= Len(tq) /\ SubSeq(tq, 1, Len(sq)) = sq

InSpace(a) == \E i \in DOMAIN Enumerate : Enumerate[i] = a

AllInSpace == \A i \in DOMAIN prog : prog[i].kind # "finalize" => InSpace(prog[i].addr)

\* the value the Prover holds for address a (the default when absent)
StoredValue(p, a) == IF p.memory[a] = <<>> THEN 0 ELSE p.memory[a][1]

Gate(k, a, val) == [kind |-> k, addr |-> a, val |-> val]

\* C1: a facade read of an address returns the value of the most recent
\* facade write to that address, whatever was read or written in between.
C1_LastWriteWins ==
    (p_ret.kind = "read" /\ written[p_ret.addr] # -1)
        => p_ret.val = written[p_ret.addr]

\* write(a, v1); write(a, v2); read(a) with v1 # v2 has returned v2
C1_Witness ==
    /\ Len(prog) = 3
    /\ \E a \in Addrs, v1, v2 \in Vals :
          /\ v1 # v2
          /\ prog = <<Gate("write", a, v1), Gate("write", a, v2), Gate("read", a, 0)>>
          /\ p_ret = Gate("read", a, v2)

\* C2: a facade read of an address never written returns zero, and the first
\* remove of every address logs the all-zero record (zero value, zero
\* challenge material).
C2_DefaultRead ==
    /\ (p_ret.kind = "read" /\ written[p_ret.addr] = -1) => p_ret.val = 0
    /\ \A i \in DOMAIN prover.rds :
          (\A j \in 1 .. (i - 1) : prover.rds[j][1] # prover.rds[i][1])
              => prover.rds[i] = <<prover.rds[i][1]>> \o Zeros(Dim - DIM_ADDR)

\* a never-written address has been read twice after a write elsewhere
C2_Witness ==
    /\ Len(prog) = 3
    /\ \E a, b \in Addrs :
          /\ a # b
          /\ prog = <<Gate("write", b, 1), Gate("read", a, 0), Gate("read", a, 0)>>
          /\ p_ret = Gate("read", a, 0)

C5_LogLength ==
    /\ Len(prover.rds) = Len(prover.wrs)
    /\ Len(verifier.rds) = Len(verifier.wrs)

\* the Prover has drained the space after reads and writes
C5_Witness ==
    /\ p_st = "Drained"
    /\ Len(prog) = 4
    /\ Len(prover.rds) = 3 + RamSize
    /\ Len(verifier.rds) = 3


\* C8: a facade read leaves the value held for the address unchanged, the
\* value held afterwards is the value returned, and a read that directly
\* follows a read of the same address returns the same value.
C8_ReadNonDestructive ==
    [][\A a \in Addrs :
          prog' = Append(prog, Gate("read", a, 0)) =>
              /\ StoredValue(prover', a) = StoredValue(prover, a)
              /\ StoredValue(prover', a) = p_ret'.val
              /\ prover'.memory[a] # <<>>
              /\ (p_ret.kind = "read" /\ p_ret.addr = a) => p_ret'.val = p_ret.val]_vars

\* a written address has been read twice in a row
C8_Witness ==
    /\ Len(prog) = 3
    /\ \E a \in Addrs :
          /\ prog = <<Gate("write", a, 1), Gate("read", a, 0), Gate("read", a, 0)>>
          /\ p_ret = Gate("read", a, 1)
          /\ StoredValue(prover, a) = 1

\* C9: the bytes absorbed by the Verifier's transcript are, in order, those
\* absorbed by the Prover's, and the challenges derived by the Verifier's
\* inserts are, in order, those derived by the Prover's; once the Verifier
\* has evaluated every gate the Prover has, both sequences are equal.
C9_TranscriptDeterminism ==
    /\ IsPrefix(verifier.tx, prover.tx)
    /\ IsPrefix(v_chals, p_chals)
    /\ v_st \in {"None", "Active"} => Len(v_chals) = Len(verifier.wrs)
    /\ v_pc = Len(prog) => (verifier.tx = prover.tx /\ v_chals = p_chals)

\* both parties derived the same three challenges, not all alike
C9_Witness ==
    /\ v_st = "Done"
    /\ p_st = "Done"
    /\ Len(v_chals) = 3
    /\ v_chals = p_chals
    /\ \E i, j \in DOMAIN v_chals : v_chals[i] # v_chals[j]
    /\ verifier.tx = prover.tx

\* C6: an insert at an address present in the Memory Map panics and changes
\* neither the map nor wrs; an insert at an absent address stores the value
\* and appends one record to wrs.
C6_DoubleInsertFatal ==
    [][\A a \in Addrs, val \in Vals :
          prog' = Append(prog, Gate("insert", a, val)) =>
              IF prover.memory[a] # <<>>
              THEN /\ p_st' = "Panic"
                   /\ prover'.memory = prover.memory
                   /\ prover'.wrs = prover.wrs
              ELSE /\ p_st' = "Active"
                   /\ StoredValue(prover', a) = val
                   /\ Len(prover'.wrs) = Len(prover.wrs) + 1]_vars

\* an insert has panicked on an address a write had left in the map
C6_Witness ==
    /\ p_st = "Panic"
    /\ Len(prog) = 2
    /\ prog[1].kind = "write"
    /\ prog[2].kind = "insert"
    /\ prog[2].addr = prog[1].addr
    /\ prover.memory[prog[1].addr][1] = prog[1].val
    /\ Len(prover.wrs) = 1

\* C7 (as amended): after write(0, 1), an insert at address 0 with no remove
\* in between raises the double-insert fault; when a remove of address 0
\* comes first, the insert at address 0 succeeds and stores its value.
C7_DoubleInsertScenario ==
    /\ \A val \in Vals :
          prog = <<Gate("write", 0, 1), Gate("insert", 0, val)>> => p_st = "Panic"
    /\ \A val \in Vals :
          prog = <<Gate("write", 0, 1), Gate("remove", 0, 0), Gate("insert", 0, val)>>
              => (p_st = "Active" /\ StoredValue(prover, 0) = val)

\* C7 as stated: write(0, 1), a remove of address 0, then an insert at
\* address 0 raises the double-insert fault.
C7_RemoveThenInsertFaults ==
    \A val \in Vals :
        prog = <<Gate("write", 0, 1), Gate("remove", 0, 0), Gate("insert", 0, val)>>
            => p_st = "Panic"

\* write(0, 1) then insert(0, 0) has panicked, the map still holding 1
C7_Witness ==
    /\ prog = <<Gate("write", 0, 1), Gate("insert", 0, 0)>>
    /\ p_st = "Panic"
    /\ StoredValue(prover, 0) = 1


\* the bytes of the calls that absorb: every write_bytes and every
\* read_bytes whose underlying read succeeded
RECURSIVE AbsorbedBytes(_)
AbsorbedBytes(h) ==
    IF h = <<>> THEN <<>>
    ELSE LET c == h[Len(h)]
             rest == AbsorbedBytes(SubSeq(h, 1, Len(h) - 1))
         IN  IF c.op = "write" \/ (c.op = "read" /\ c.ok) THEN rest \o c.buf ELSE rest

\* the bytes of the read_bytes and write_bytes calls that succeeded
RECURSIVE SuccessfulBytes(_)
SuccessfulBytes(h) ==
    IF h = <<>> THEN <<>>
    ELSE LET c == h[Len(h)]
             rest == SuccessfulBytes(SubSeq(h, 1, Len(h) - 1))
         IN  IF c.op \in {"write", "read"} /\ c.ok THEN rest \o c.buf ELSE rest

\* C10 (as amended): the hasher holds, and a challenge is the digest of, the
\* concatenation in call order of the bytes of every successful read_bytes
\* and of every write_bytes, failed ones included, since creation; a
\* challenge call removes nothing from it.
C10_TranscriptAbsorption ==
    /\ t_tx = AbsorbedBytes(t_hist)
    /\ t_out.res = "chal" =>
          t_out.chal = TxChallenge(AbsorbedBytes(t_hist), t_hist[Len(t_hist)].n)

\* C10 as stated: a challenge is the digest of the bytes of the successful
\* read_bytes and write_bytes calls.
C10_SuccessfulCallsOnly ==
    t_out.res = "chal" =>
        t_out.chal = TxChallenge(SuccessfulBytes(t_hist), t_hist[Len(t_hist)].n)

\* a challenge, a failed write, then a challenge that depends on the bytes
\* of the failed write
C10_Witness ==
    /\ Len(t_hist) = 3
    /\ t_hist[1].op = "challenge"
    /\ t_hist[2].op = "write" /\ ~t_hist[2].ok
    /\ t_hist[3].op = "challenge"
    /\ t_out.chal = TxChallenge(t_hist[2].buf, t_hist[3].n)
    /\ t_out.chal # TxChallenge(<<>>, t_hist[3].n)

\* C4 (as amended): once a read has committed to a value other than the
\* stored one in a run whose addresses all lie in the declared space, the
\* read records and the write records differ as multisets after the drain;
\* both parties reach the same verdict; the check is nevertheless passed
\* when the Verifier draws chal_cmbn = 0 (combine then keeps only the last
\* element of a record).
C4_CorruptionDetected ==
    cheated =>
        /\ (p_st = "Drained" /\ AllInSpace)
              => BagOfSeq(prover.rds) # BagOfSeq(prover.wrs)
        /\ (p_st = "Done" /\ v_st = "Done") => p_res = v_res
        /\ (v_st = "Done" /\ AllInSpace /\ v_trip[1] = 0) => v_res = "ok"

\* C4 as stated: with one corrupted entry of rds, finalize fails.
C4_CorruptionAlwaysFails ==
    cheated =>
        /\ p_st = "Done" => p_res = "fail"
        /\ v_st = "Done" => v_res = "fail"

\* a corrupted read has made finalize fail on both parties
C4_Witness ==
    /\ cheated
    /\ p_st = "Done" /\ p_res = "fail"
    /\ v_st = "Done" /\ v_res = "fail"
    /\ AllInSpace

\* C11 as stated: once finalize has been called on a facade, no read or write
\* is made on it any more (no gate follows a finalize gate of the Prover's
\* facade).
C11_FinalizeTerminal ==
    \A i, j \in DOMAIN prog :
        (i < j /\ prog[i].kind = "finalize") => prog[j].kind \notin {"read", "write"}

\* the last Len(Enumerate) records of the logs are those of the drain: after
\* k earlier pairs, one all-default write record and one read record per
\* address, in enumeration order
DrainAccounted(log_r, log_w, k) ==
    /\ Len(log_r) = k + Len(Enumerate)
    /\ Len(log_w) = k + Len(Enumerate)
    /\ \A i \in DOMAIN Enumerate :
          /\ log_w[k + i] = <<Enumerate[i]>> \o Zeros(Dim - DIM_ADDR)
          /\ log_r[k + i][1] = Enumerate[i]

\* C12: at the permutation check of finalize the logs of each party hold,
\* after the records of the earlier remove / insert pairs, exactly one
\* all-default write record and one read record for every address of
\* space.enumerate(), in enumeration order, so that
\* len(rds) = len(wrs) = pairs + size().
C12_DrainAccounting ==
    /\ p_st = "Drained" => DrainAccounted(prover.rds, prover.wrs, Len(prog) - 1)
    /\ (v_st = "Done" /\ v_trip # <<>>)
          => DrainAccounted(v_logs.rds, v_logs.wrs, v_pc - 1)

\* both parties have drained the space after two facade calls
C12_Witness ==
    /\ p_st = "Drained"
    /\ v_st = "Done"
    /\ Len(prog) = 3
    /\ Len(prover.wrs) = 2 + RamSize
    /\ Len(v_logs.rds) = 2 + RamSize
    /\ v_logs.wrs[3] = <<0>> \o Zeros(Dim - DIM_ADDR)

Distinct(sq) == \A i, j \in DOMAIN sq : i # j => sq[i] # sq[j]

\* C13 (as amended): an iterator of Bounded::enumerate yields the field
\* encodings of 0, 1, 2, ... in that order, exactly size() = bound of them
\* before next() returns None, and every call to enumerate starts again
\* from 0 and repeats the same sequence; the addresses are pairwise
\* distinct, and are 0, ..., bound-1 themselves, when bound is at most the
\* number of field elements.
C13_Enumeration ==
    /\ it_rem >= 0 => Len(it_out) + it_rem = it_bound
    /\ it_done => (Len(it_out) = it_bound /\ it_out = BoundedIter(0, it_bound))
    /\ \A i \in DOMAIN it_out : it_out[i] = (i - 1) % P
    /\ \A i \in DOMAIN it_out : i \in DOMAIN it_prev => it_out[i] = it_prev[i]
    /\ it_bound <= P =>
          /\ Distinct(it_out)
          /\ \A i \in DOMAIN it_out : it_out[i] = i - 1

\* C13 as stated: for every bound the addresses yielded are pairwise
\* distinct.
C13_DistinctForEveryBound == Distinct(it_out)

\* a space of three addresses has been enumerated twice, 0, 1, 2 each time
C13_Witness ==
    /\ it_bound = 3
    /\ it_done
    /\ it_out = <<0, 1, 2>>
    /\ it_prev = <<0, 1, 2>>

\* C14: the Verifier's challenges exist only once its logs hold every record
\* of the drain, the Prover has the challenges (or finds them on the channel)
\* only after its own drain has appended and sent its last record, and no
\* step taken once the challenges exist makes rds or wrs of either party
\* longer.
C14_ChallengesAfterRecords ==
    /\ [](v_trip # <<>> =>
             /\ v_st = "Done"
             /\ DrainAccounted(v_logs.rds, v_logs.wrs, v_pc - 1)
             /\ p2v = <<>>)
    /\ []((v2p # <<>> \/ p_trip # <<>>) => p_st \in {"Drained", "Done"})
    /\ [](p_trip # <<>> => (p_st = "Done" /\ v_trip # <<>>))
    /\ [][v_trip' # <<>> =>
             /\ Len(prover'.rds) <= Len(prover.rds)
             /\ Len(prover'.wrs) <= Len(prover.wrs)
             /\ Len(verifier'.rds) <= Len(verifier.rds)
             /\ Len(verifier'.wrs) <= Len(verifier.wrs)]_vars

\* the Verifier has sampled after two facade calls and the drain while the
\* Prover, drained, has not yet read the challenges
C14_Witness ==
    /\ v_trip # <<>>
    /\ Len(v2p) = 3
    /\ p_st = "Drained"
    /\ p_trip = <<>>
    /\ Len(prog) = 3
    /\ Len(prover.rds) = 2 + RamSize

\* C15: once the Verifier has finished its finalize the three challenges are
\* on the channel in the order chal_cmbn, chal_perm1, chal_perm2; the triple
\* the Prover reads is the triple the Verifier sampled, element by element,
\* nothing is left on the channel, and both parties reach the same verdict.
C15_ChallengeExchange ==
    /\ (v_trip # <<>> /\ p_trip = <<>>) => v2p = v_trip
    /\ p_trip # <<>> => (p_trip = v_trip /\ v2p = <<>>)
    /\ (p_st = "Done" /\ v_st = "Done") => p_res = v_res

\* the Prover has read a triple whose first two elements differ
C15_Witness ==
    /\ p_st = "Done"
    /\ v_st = "Done"
    /\ Len(p_trip) = 3
    /\ p_trip = v_trip
    /\ p_trip[1] # p_trip[2]
    /\ v2p = <<>>
    /\ Len(prog) >= 2

\* the removes made so far by the Prover: one per read or write gate, and
\* one per address of the space once an active instance has been finalized
PRemoves ==
    IF prog # <<>> /\ prog[Len(prog)].kind = "finalize"
    THEN (Len(prog) - 1) + (IF Len(prog) > 1 THEN Len(Enumerate) ELSE 0)
    ELSE Len(prog)

\* the removes made so far by the Verifier
VRemoves ==
    CASE v_st = "Drained" -> v_pc + Len(Enumerate)
      [] v_st = "Done" -> (v_pc - 1) + (IF v_pc > 1 THEN Len(Enumerate) ELSE 0)
      [] OTHER -> v_pc

\* C16: every remove of the Prover sends one message of DIM_VALUE + DIM_CHAL
\* committed elements through its transcript channel and every remove of
\* the Verifier receives one such message through its own; insert sends and
\* receives nothing; the messages in flight are those of the removes the
\* Verifier has not made yet, and none is left when both have finished.
C16_MessageLockStep ==
    /\ Len(prover.tx) = (DIM_VALUE + DimChal) * PRemoves
    /\ Len(verifier.tx) = (DIM_VALUE + DimChal) * VRemoves
    /\ Len(p2v) = PRemoves - VRemoves
    /\ \A k \in DOMAIN p2v :
          /\ Len(p2v[k].bytes) = DIM_VALUE + DimChal
          /\ Len(p2v[k].com) = DIM_VALUE + DimChal
    /\ (p_st = "Done" /\ v_st = "Done") => (p2v = <<>> /\ v2p = <<>>)

\* both parties have finished after two facade calls and the drain
C16_Witness ==
    /\ p_st = "Done"
    /\ v_st = "Done"
    /\ Len(prog) = 3
    /\ p2v = <<>>
    /\ Len(verifier.tx) = (DIM_VALUE + DimChal) * (2 + RamSize)
    /\ verifier.tx = prover.tx

\* C17 as stated: neither party gets past the length assertion of finalize
\* with logs of different lengths (the Prover is never waiting for the
\* challenges, and the Verifier never completes, with len(rds) # len(wrs)).
C17_MismatchAborts ==
    /\ p_st = "Drained" => Len(prover.rds) = Len(prover.wrs)
    /\ (v_st = "Done" /\ v_trip # <<>>) => Len(v_logs.rds) = Len(v_logs.wrs)

\* the permutation check with challenge chal over the logs collapsed with cmbn
PermOf(logs, cmbn, chal) ==
    Permutation(chal, CollapseVecs(logs.wrs, cmbn), CollapseVecs(logs.rds, cmbn))

\* C18: the finalize of an instance, and with it the facade's finalize,
\* returns success exactly when the check with chal_perm1 and the check with
\* chal_perm2, both over the logs collapsed with chal_cmbn, succeed; when
\* one of them fails the result is a failure.
C18_FailureNotMasked ==
    /\ []((v_st = "Done" /\ v_trip # <<>>) =>
             (v_res = "ok" <=> (/\ PermOf(v_logs, v_trip[1], v_trip[2])
                                /\ PermOf(v_logs, v_trip[1], v_trip[3]))))
    /\ []((p_st = "Done" /\ p_trip # <<>>) => p_res \in {"ok", "fail"})
    /\ [][(p_st = "Drained" /\ p_st' = "Done") =>
             (p_res' = "ok" <=> (/\ PermOf(prover, p_trip'[1], p_trip'[2])
                                 /\ PermOf(prover, p_trip'[1], p_trip'[3])))]_vars

\* finalize has failed on both parties although the check with chal_perm1
\* succeeded: the check with chal_perm2 failed
C18_Witness ==
    /\ v_st = "Done"
    /\ p_st = "Done"
    /\ v_res = "fail"
    /\ p_res = "fail"
    /\ Len(v_trip) = 3
    /\ PermOf(v_logs, v_trip[1], v_trip[2])
    /\ ~PermOf(v_logs, v_trip[1], v_trip[3])

\* C19 as stated: a facade operation in which the channel fails ends with an
\* error result handed to its caller (it does not abort the program).
C19_IoErrorReturned ==
    p_ret.kind = "ioerror" => p_st # "Panic"

\* the positions of backend b's log at which the call named e was made
CallsOf(b, e) == {k \in DOMAIN ev_log[b] : ev_log[b][k] \in {e, e \o "_err"}}

\* C20: on every backend the RAM finalize is invoked at most once, and
\* exactly once when the evaluation returns Ok; when it is invoked no gate
\* is issued any more on any backend, finalize_conv and finalize_disj of
\* that backend have succeeded before it and the MAC backend's finalize comes
\* after it; when finalize_conv or finalize_disj fails, the RAM finalize of
\* that backend is not invoked and the evaluation returns the error.
C20_RamFinalizeOnce ==
    \A b \in Backends :
        /\ Cardinality(CallsOf(b, "ram")) <= 1
        /\ ev_result = "ok" => Cardinality(CallsOf(b, "ram")) = 1
        /\ \A k \in CallsOf(b, "ram") :
              /\ ev_pc # "gates"
              /\ \A j \in CallsOf(b, "gate") : j < k
              /\ k >= 3 /\ ev_log[b][k - 2] = "conv" /\ ev_log[b][k - 1] = "disj"
              /\ \A j \in CallsOf(b, "mac") : j = k + 1 /\ ev_log[b][k] = "ram"
        /\ \A k \in DOMAIN ev_log[b] :
              ev_log[b][k] \in {"conv_err", "disj_err"} =>
                  /\ CallsOf(b, "ram") = {}
                  /\ ev_result = "err"
                  /\ ev_pc = "returned"

\* the first backend has been finalized in full after a gate, the second
\* has failed in finalize_disj after a gate and its RAM finalize was not run
C20_Witness ==
    /\ ev_result = "err"
    /\ ev_log[1] = <<"gate", "conv", "disj", "ram", "mac">>
    /\ ev_log[2] = <<"gate", "conv", "disj_err">>

\* C21 as stated: the challenge mode is a configuration choice; when the
\* Fiat-Shamir mode is configured the Verifier sends no challenge to the
\* Prover and the Prover reads none (each derives chal_cmbn and chal_perm
\* from its transcript), and when the interactive mode is configured the
\* Verifier samples and sends them.
C21_BothModes ==
    /\ (fs_cfg /\ v_st = "Done") => (v_trip = <<>> /\ v2p = <<>>)
    /\ (fs_cfg /\ p_st = "Done") => p_trip = <<>>
    /\ (~fs_cfg /\ v_st = "Done" /\ v_logs.rds # <<>>) => Len(v_trip) = 3

\* the call a step of the transcript channel has just made
LastCall(h) == h[Len(h)]

C23_ErrorPropagation ==
    /\ [](t_hist # <<>> =>
            LET c == LastCall(t_hist)
            IN  IF c.op = "challenge" THEN t_out.res = "chal"
                ELSE t_out.res = (IF c.ok THEN "ok" ELSE "err"))
    /\ [][(t_hist' # t_hist /\ LastCall(t_hist').op = "flush") =>
             (t_tx' = t_tx /\ t_sent' = t_sent)]_vars
    /\ [][(t_hist' # t_hist /\ LastCall(t_hist').op = "write") =>
             t_sent' = (IF LastCall(t_hist').ok THEN t_sent \o LastCall(t_hist').buf
                        ELSE t_sent)]_vars

\* a failed read, a failed write and a failed flush have been made, the last
\* returned the error, and only the write has been absorbed
C23_Witness ==
    /\ Len(t_hist) = 3
    /\ t_hist[1].op = "read" /\ ~t_hist[1].ok
    /\ t_hist[2].op = "write" /\ ~t_hist[2].ok
    /\ t_hist[3].op = "flush" /\ ~t_hist[3].ok
    /\ t_out.res = "err"
    /\ t_tx = t_hist[2].buf
    /\ t_sent = <<>>

\* C24: a clone call on the transcript channel panics: it hands out neither
\* a channel nor a copy of the hash state, whatever has been absorbed
\* before, and it leaves the hash state and the bytes sent as they were.
C24_CloneFaults ==
    /\ [](t_out.res # "channel")
    /\ []((t_hist # <<>> /\ LastCall(t_hist).op = "clone") =>
             (t_out.res = "panic" /\ t_out.chal = <<>>))
    /\ [][(t_hist' # t_hist /\ LastCall(t_hist').op = "clone") =>
             (t_tx' = t_tx /\ t_sent' = t_sent)]_vars

\* clone has been called on a channel that had absorbed bytes, and again
C24_Witness ==
    /\ Len(t_hist) = 3
    /\ t_hist[1].op = "write"
    /\ t_hist[2].op = "clone"
    /\ t_hist[3].op = "clone"
    /\ t_out.res = "panic"
    /\ t_tx # <<>>

\* sq has grown into tq by exactly one record at its end
GrownByOne(sq, tq) == Len(tq) = Len(sq) + 1 /\ SubSeq(tq, 1, Len(sq)) = sq

\* C25: the read or write that takes a facade out of its empty state leaves
\* an instance whose rds and wrs hold exactly one record each, that of the
\* accessed address, with one commitment message sent (Prover) or consumed
\* (Verifier); every later read or write keeps the records the instance
\* holds and adds exactly one to rds and one to wrs.
C25_LazyActivation ==
    /\ [][(p_st = "None" /\ p_st' = "Active") =>
             /\ Len(prover'.rds) = 1 /\ Len(prover'.wrs) = 1
             /\ prover'.rds[1][1] = LastCall(prog').addr
             /\ prover'.wrs[1][1] = LastCall(prog').addr
             /\ Len(p2v') = Len(p2v) + 1
             /\ Len(prog') = 1]_vars
    /\ [][(p_st = "Active" /\ p_st' = "Active" /\ prog' # prog) =>
             /\ GrownByOne(prover.rds, prover'.rds)
             /\ GrownByOne(prover.wrs, prover'.wrs)]_vars
    /\ [][(v_st = "None" /\ v_st' = "Active") =>
             /\ Len(verifier'.rds) = 1 /\ Len(verifier'.wrs) = 1
             /\ verifier'.rds[1][1] = prog[1].addr
             /\ verifier'.wrs[1][1] = prog[1].addr
             /\ Len(p2v') = Len(p2v) - 1]_vars
    /\ [][(v_st = "Active" /\ v_st' = "Active" /\ v_pc' # v_pc) =>
             /\ GrownByOne(verifier.rds, verifier'.rds)
             /\ GrownByOne(verifier.wrs, verifier'.wrs)]_vars

\* both facades were activated by a read and have served a write after it
C25_Witness ==
    /\ Len(prog) = 2
    /\ prog[1].kind = "read"
    /\ prog[2].kind = "write"
    /\ v_pc = 2
    /\ p_st = "Active" /\ v_st = "Active"
    /\ Len(prover.rds) = 2 /\ Len(prover.wrs) = 2
    /\ Len(verifier.rds) = 2 /\ Len(verifier.wrs) = 2

\* C26: the Verifier's insert can always be made when it is the next call,
\* whatever removes and inserts came before (an address inserted twice with
\* no remove in between included); it appends exactly one record to wrs,
\* that of the inserted address, and leaves rds alone; the Verifier's
\* Memory Map holds no entry at any time.
C26_VerifierInsertUnchecked ==
    /\ [](\A a \in Field : verifier.memory[a] = <<>>)
    /\ []((v_st \in {"None", "Active"} /\ v_pc < Len(prog) /\ NextGate.kind = "insert")
             => ENABLED VInsertCall)
    /\ [][(v_pc' # v_pc /\ prog[v_pc'].kind = "insert") =>
             /\ GrownByOne(verifier.wrs, verifier'.wrs)
             /\ LastCall(verifier'.wrs)[1] = prog[v_pc'].addr
             /\ verifier'.rds = verifier.rds
             /\ v_st' = "Active"]_vars

\* the Verifier has inserted at one address twice with no remove at all,
\* where the Prover's second insert was a double insert
C26_Witness ==
    /\ Len(prog) = 2
    /\ prog[1].kind = "insert" /\ prog[2].kind = "insert"
    /\ prog[1].addr = prog[2].addr
    /\ p_st = "Panic"
    /\ v_pc = 2
    /\ v_st = "Active"
    /\ Len(verifier.wrs) = 2
    /\ verifier.rds = <<>>

\* C27: a read through an address wire returns the value written by the
\* call before it through any wire of the same address value, whatever the
\* tags of the two wires; an insert through a wire whose address value was
\* inserted or written by the call before it is a double insert, whatever
\* the tags.
C27_AddressByValue ==
    /\ [][(/\ prog' # prog /\ prog # <<>>
           /\ p_st = "Active"
           /\ LastCall(prog).kind = "write"
           /\ LastCall(prog').kind = "read"
           /\ LastCall(prog').addr = LastCall(prog).addr)
             => (p_ret'.val = LastCall(prog).val /\ p_st' = "Active")]_vars
    /\ [][(/\ prog' # prog /\ prog # <<>>
           /\ p_st = "Active"
           /\ LastCall(prog).kind \in {"write", "insert"}
           /\ LastCall(prog').kind = "insert"
           /\ LastCall(prog').addr = LastCall(prog).addr)
             => p_st' = "Panic"]_vars

\* a write of 1, a read of the same address through a wire with another tag
\* that returned 1, and an insert through the first wire that faulted
C27_Witness ==
    /\ Len(prog) = 3
    /\ prog[1].kind = "write" /\ prog[1].val = 1
    /\ prog[2].kind = "read"
    /\ prog[3].kind = "insert"
    /\ prog[1].addr = prog[2].addr /\ prog[1].tag # prog[2].tag
    /\ prog[3].addr = prog[2].addr /\ prog[3].tag # prog[2].tag
    /\ written[prog[1].addr] = 1
    /\ StoredValue(prover, prog[1].addr) = 1
    /\ p_st = "Panic"

\* x to the power k, over the integers
RECURSIVE Pow(_, _)
Pow(x, k) == IF k = 0 THEN 1 ELSE x * Pow(x, k - 1)

\* t[1] * x^(n-1) + ... + t[i] * x^(n-i), over the integers
RECURSIVE PolySum(_, _, _)
PolySum(t, x, i) ==
    IF i = 0 THEN 0 ELSE PolySum(t, x, i - 1) + t[i] * Pow(x, Len(t) - i)

\* C28: combine on the tuple (t0, ..., t_{n-1}), n >= 1, with challenge x
\* returns the sum over i of t_i * x^(n-1-i) reduced into the field;
\* collapse_vecs returns as many scalars as the log has records, the i-th
\* being that sum for the i-th record with the same x.
C28_HornerFold ==
    /\ cv_in.kind = "combine" =>
          cv_out = <<PolySum(cv_in.arg, cv_in.x, Len(cv_in.arg)) % P>>
    /\ cv_in.kind = "collapse" =>
          /\ Len(cv_out) = Len(cv_in.arg)
          /\ \A i \in DOMAIN cv_in.arg :
                cv_out[i] = PolySum(cv_in.arg[i], cv_in.x, Len(cv_in.arg[i])) % P

\* a log of two records that are each other's reverse has been collapsed
\* into two different scalars
C28_Witness ==
    /\ cv_in.kind = "collapse"
    /\ Len(cv_in.arg) = 2
    /\ cv_in.arg[1] = <<1, 2>>
    /\ cv_in.arg[2] = <<2, 1>>
    /\ cv_in.x = 2
    /\ cv_out = <<1, 2>>

\* the Prover is inside finalize and waits for challenges that are not there
ProverBlocked == p_st = "Drained" /\ Len(v2p) < 3

\* the Verifier has not returned from finalize and its next call waits for
\* bytes that are not there
VerifierBlocked == v_st # "Done" /\ ~ENABLED VerifierStep

\* C29: both parties eventually return from finalize, and at no time are
\* both of them blocked on a read of the channel: while the Prover waits for
\* the challenges every commitment it wrote has been flushed to the
\* Verifier, and the challenges are in the channel as soon as the Verifier
\* has sampled them.
C29_Progress ==
    /\ [](~(ProverBlocked /\ VerifierBlocked))
    /\ [](p_st = "Drained" => p_buf = <<>>)
    /\ [](v_trip # <<>> => (p_trip = v_trip \/ SubSeq(v2p, 1, 3) = v_trip))
    /\ <>(p_st = "Done" /\ v_st = "Done")

\* both parties have returned from the finalize of a run of two accesses
\* whose commitments left the Prover's buffer only at the flush of finalize
C29_Witness ==
    /\ p_st = "Done" /\ v_st = "Done"
    /\ p_res = "ok" /\ v_res = "ok"
    /\ Len(prog) = 3
    /\ p_buf = <<>>
    /\ p_trip = v_trip /\ Len(p_trip) = 3

\* the records of log that carry address a, in order
RecordsOf(log, a) ==
    LET IsFor(r) == r[1] = a
    IN  SelectSeq(log, IsFor)

\* the record the Prover currently holds for address a
HeldRecord(p, a) == <<a>> \o MemoryRemove(p, a)

\* C30: between the operations of a facade, for every address a, the write
\* records for a together with the initial record (a, 0, ..., 0) are, as a
\* multiset, the read records for a together with the record held for a
\* (its map entry, or (a, 0, ..., 0) when a is absent).
C30_PerAddressBalance ==
    p_st \in {"None", "Active"} =>
        \A a \in Field :
            BagOfSeq(Append(RecordsOf(prover.wrs, a), <<a>> \o Zeros(Dim - DIM_ADDR)))
                = BagOfSeq(Append(RecordsOf(prover.rds, a), HeldRecord(prover, a)))

\* three accesses to address 0, the last a write of 1, with another address
\* untouched: the held record of 0 is the last write record, with challenge
\* material that is not all zero
C30_Witness ==
    /\ p_st = "Active"
    /\ Len(prog) = 3
    /\ \A i \in 1 .. 3 : prog[i].addr = 0
    /\ prog[1].kind = "write" /\ prog[2].kind = "read" /\ prog[3].kind = "write"
    /\ Len(RecordsOf(prover.rds, 0)) = 3
    /\ RecordsOf(prover.rds, 1) = <<>>
    /\ HeldRecord(prover, 0) = prover.wrs[3]
    /\ HeldRecord(prover, 0)[2] = 1
    /\ SubSeq(HeldRecord(prover, 0), 3, Dim) # Zeros(DimChal)

\* the addresses outside the declared space that a read or write has used
OutOfSpaceUsed ==
    {a \in Field : /\ ~InSpace(a)
                   /\ \E i \in DOMAIN prog :
                         prog[i].kind # "finalize" /\ prog[i].addr = a}

\* C31 (as amended): after the drain of finalize, every address outside the
\* declared space that a read or write has used is still in the Prover's
\* map; its first read record is the zero default and its last write record
\* is the record the map holds, neither removed by the drain; the read
\* records and the write records are equal as multisets exactly when the
\* record held for every such address is itself the zero default (a last
\* write of value zero whose derived challenge elements are all zero).
C31_OutOfSpaceUnbalanced ==
    p_st = "Drained" =>
        /\ \A a \in OutOfSpaceUsed :
              /\ prover.memory[a] # <<>>
              /\ RecordsOf(prover.rds, a)[1] = <<a>> \o Zeros(Dim - DIM_ADDR)
              /\ LET w == RecordsOf(prover.wrs, a)
                 IN  w[Len(w)] = HeldRecord(prover, a)
              /\ Len(RecordsOf(prover.rds, a)) = Len(RecordsOf(prover.wrs, a))
        /\ \A a \in Field : InSpace(a) => prover.memory[a] = <<>>
        /\ (BagOfSeq(prover.rds) = BagOfSeq(prover.wrs))
              <=> \A a \in OutOfSpaceUsed :
                     HeldRecord(prover, a) = <<a>> \o Zeros(Dim - DIM_ADDR)

\* C31 as stated: after the drain of a run that used an address outside the
\* declared space, the read records and the write records differ as
\* multisets.
C31_AlwaysUnbalanced ==
    (p_st = "Drained" /\ OutOfSpaceUsed # {})
        => BagOfSeq(prover.rds) # BagOfSeq(prover.wrs)

\* the drain has run after a write of 1 outside the declared space: the
\* address is still held and the two logs differ as multisets
C31_Witness ==
    /\ p_st = "Drained"
    /\ OutOfSpaceUsed = {RamSize}
    /\ prover.memory[RamSize] # <<>>
    /\ prover.memory[RamSize][1] = 1
    /\ BagOfSeq(prover.rds) # BagOfSeq(prover.wrs)

\* C32: a facade read or write at address a leaves the map entry of every
\* other address as it was, adds exactly one record to rds and exactly one
\* to wrs, both with address a, and between the operations of the facade no
\* record already in rds or wrs is changed or dropped.
C32_AccessFrame ==
    /\ [][(p_st \in {"None", "Active"} /\ p_st' = "Active" /\ prog' # prog) =>
             LET a == LastCall(prog').addr
                 before == IF p_st = "None" THEN ProverNew ELSE prover
             IN  /\ \A b \in Field \ {a} : prover'.memory[b] = before.memory[b]
                 /\ GrownByOne(before.rds, prover'.rds)
                 /\ GrownByOne(before.wrs, prover'.wrs)
                 /\ LastCall(prover'.rds)[1] = a
                 /\ LastCall(prover'.wrs)[1] = a
                 /\ prover'.memory[a] # <<>>]_vars
    /\ [][(p_st = "Active" /\ p_st' = "Active") =>
             /\ IsPrefix(prover.rds, prover'.rds)
             /\ IsPrefix(prover.wrs, prover'.wrs)]_vars

\* a write to address 1 has followed writes to the two other addresses,
\* whose entries are still the records of those writes
C32_Witness ==
    /\ p_st = "Active"
    /\ Len(prog) = 3
    /\ prog[1] = Gate("write", 0, 1)
    /\ prog[2] = Gate("write", RamSize, 1)
    /\ prog[3] = Gate("write", 1, 0)
    /\ HeldRecord(prover, 0) = prover.wrs[1]
    /\ HeldRecord(prover, RamSize) = prover.wrs[2]
    /\ HeldRecord(prover, 1) = prover.wrs[3]
    /\ Len(prover.rds) = 3

\* Prover and Verifier have completed the same remove and insert calls, and
\* neither has collapsed its logs yet
SameCalls ==
    \/ p_st = "Active" /\ v_st = "Active" /\ v_pc = Len(prog)
    \/ p_st = "Drained" /\ v_st = "Drained"

\* the challenge elements of a write record
ChalPart(rec) == SubSeq(rec, DIM_ADDR + DIM_VALUE + 1, Len(rec))

\* C33: when Prover and Verifier have completed the same remove and insert
\* calls (those of the drain included), their rds have the same length and
\* so have their wrs, every record on either side has DIM_ADDR + DIM_VALUE +
\* DimChal elements, the challenge elements of write records at equal
\* indices are equal, and the write records queued by the drain are the same
\* all-default records on both sides.
C33_LogsInStep ==
    SameCalls =>
        /\ Len(prover.rds) = Len(verifier.rds)
        /\ Len(prover.wrs) = Len(verifier.wrs)
        /\ \A i \in DOMAIN prover.rds :
              Len(prover.rds[i]) = Dim /\ Len(verifier.rds[i]) = Dim
        /\ \A i \in DOMAIN prover.wrs :
              /\ Len(prover.wrs[i]) = Dim /\ Len(verifier.wrs[i]) = Dim
              /\ ChalPart(prover.wrs[i]) = ChalPart(verifier.wrs[i])
        /\ p_st = "Drained" =>
              \A i \in DOMAIN Enumerate :
                 LET k == Len(prover.wrs) - Len(Enumerate) + i
                 IN  /\ prover.wrs[k] = <<Enumerate[i]>> \o Zeros(Dim - DIM_ADDR)
                     /\ verifier.wrs[k] = prover.wrs[k]

\* both parties have drained the space after a write and a read, and the
\* challenge elements of a write record are not all zero
C33_Witness ==
    /\ p_st = "Drained" /\ v_st = "Drained"
    /\ Len(prog) = 3
    /\ prog[1].kind = "write" /\ prog[2].kind = "read"
    /\ Len(verifier.wrs) = 2 + RamSize
    /\ \E i \in 1 .. 2 : ChalPart(verifier.wrs[i]) # Zeros(DimChal)

\* the facade holds an instance (its Option is Some, or finalize has taken
\* the instance out and is running on it)
HoldsInstance(st) == st \in {"Active", "Drained"}

\* C34: finalize on a facade that never served a read or write returns
\* success and does nothing else, on the Prover and on the Verifier: no
\* message is sent or consumed, no record is logged, no challenge is drawn,
\* read or sent, and the facade holds no instance afterwards, so that a read
\* or write that follows activates it from a new instance.
C34_FinalizeOnEmpty ==
    /\ [][(p_st = "None" /\ prog' # prog /\ LastCall(prog').kind = "finalize") =>
             /\ p_res' = "ok"
             /\ ~HoldsInstance(p_st')
             /\ prover' = ProverNew
             /\ p2v' = p2v /\ v2p' = v2p
             /\ p_chals' = p_chals /\ p_trip' = p_trip]_vars
    /\ [][(v_st = "None" /\ v_pc' # v_pc /\ prog[v_pc'].kind = "finalize") =>
             /\ v_res' = "ok"
             /\ ~HoldsInstance(v_st')
             /\ verifier' = VerifierNew
             /\ p2v' = p2v /\ v2p' = v2p
             /\ v_chals' = v_chals /\ v_trip' = v_trip
             /\ v_logs' = v_logs]_vars
    /\ [][(p_st = "Done" /\ prog = <<Gate("finalize", 0, 0)>> /\ prog' # prog) =>
             /\ p_st' = "Active"
             /\ Len(prover'.rds) = 1 /\ Len(prover'.wrs) = 1
             /\ prover'.rds[1] = <<LastCall(prog').addr>> \o Zeros(Dim - DIM_ADDR)
             /\ Len(p2v') = Len(p2v) + 1]_vars

\* both facades were finalized before any access and returned success with
\* nothing sent; the Prover's facade has then served a read from a new
\* instance
C34_Witness ==
    /\ Len(prog) = 2
    /\ prog[1].kind = "finalize" /\ prog[2].kind = "read"
    /\ p_res = "ok" /\ p_st = "Active"
    /\ Len(prover.rds) = 1
    /\ v_st = "Done" /\ v_res = "ok" /\ v_pc = 1
    /\ verifier = VerifierNew
    /\ v2p = <<>> /\ Len(p2v) = 1

\* the read records pushed by the drain: the last Len(Enumerate) of rds
DrainReads(p) == SubSeq(p.rds, Len(p.rds) - Len(Enumerate) + 1, Len(p.rds))

\* C35: after the drain of finalize the Prover's map holds no address of the
\* declared space, the drain has removed every address of the space exactly
\* once (one read record per address), and the map is empty when every
\* earlier read and write used an address of the space.
C35_DrainEmptiesSpace ==
    p_st = "Drained" =>
        /\ \A a \in Field : InSpace(a) => prover.memory[a] = <<>>
        /\ Len(prover.rds) >= Len(Enumerate)
        /\ \A a \in Field :
              Len(RecordsOf(DrainReads(prover), a)) = IF InSpace(a) THEN 1 ELSE 0
        /\ AllInSpace => prover.memory = [a \in Field |-> <<>>]

\* the drain has run after writes of 1 to two addresses of the space, which
\* it has taken out of the map with the values written
C35_Witness ==
    /\ p_st = "Drained"
    /\ Len(prog) = 3
    /\ prog[1] = Gate("write", 0, 1) /\ prog[2] = Gate("write", 1, 1)
    /\ prover.memory = [a \in Field |-> <<>>]
    /\ DrainReads(prover)[1][2] = 1
    /\ DrainReads(prover)[2][2] = 1

\* C36: a challenge of N elements is determined by the bytes absorbed so
\* far and is cut from one digest of them: the first element from the first
\* half of the digest, the second from the second half, and element i + 2 is
\* element i again; a challenge call that directly follows a challenge call
\* returns the same elements (the same array for the same N).
C36_ChallengeFromOneDigest ==
    /\ [](t_out.res = "chal" =>
            LET n == LastCall(t_hist).n
                bytes == AbsorbedBytes(t_hist)
            IN  /\ Len(t_out.chal) = n
                /\ n >= 1 => t_out.chal[1] = FromUniformBytes(DigestHalf(bytes, 0))
                /\ n >= 2 => t_out.chal[2] = FromUniformBytes(DigestHalf(bytes, 1))
                /\ \A i \in 1 .. n - 2 : t_out.chal[i + 2] = t_out.chal[i])
    /\ [][(t_out.res = "chal" /\ t_hist' # t_hist /\ LastCall(t_hist').op = "challenge") =>
             /\ \A i \in DOMAIN t_out.chal \cap DOMAIN t_out'.chal :
                   t_out'.chal[i] = t_out.chal[i]
             /\ LastCall(t_hist').n = LastCall(t_hist).n => t_out'.chal = t_out.chal]_vars

\* after a write, two challenge calls for three elements have returned the
\* same array, whose first two elements differ and whose third is the first
C36_Witness ==
    /\ Len(t_hist) = 3
    /\ t_hist[1].op = "write"
    /\ t_hist[2].op = "challenge" /\ t_hist[2].n = 3
    /\ t_hist[3].op = "challenge" /\ t_hist[3].n = 3
    /\ Len(t_out.chal) = 3
    /\ t_out.chal[1] # t_out.chal[2]
    /\ t_out.chal[3] = t_out.chal[1]

\* the bytes of the write_bytes calls the hasher has absorbed, in call order
RECURSIVE WrittenBytes(_)
WrittenBytes(h) ==
    IF h = <<>> THEN <<>>
    ELSE LET c == h[Len(h)]
             rest == WrittenBytes(SubSeq(h, 1, Len(h) - 1))
         IN  IF c.op = "write" THEN rest \o c.buf ELSE rest

RightCounts(g) ==
    IF g.op = "read" THEN Len(g.inputs) = 1 /\ Len(g.outputs) = 1
    ELSE Len(g.inputs) = 2 /\ Len(g.outputs) = 0

\* ... and, for a read, an output range of one wire
WellShaped(g) ==
    /\ RightCounts(g)
    /\ g.op = "read" => g.outputs[1][1] = g.outputs[1][2]

\* C38 (as amended): a Read gate completes only with one input range and
\* one output range of a single wire, and sets that wire, to the value read,
\* and no other; a Write gate completes only with two input ranges and no
\* output range, and sets no wire; a gate with another number of input or
\* output ranges aborts with no call made on the RAM and no wire set; a Read
\* gate whose one output range has more than one wire aborts after ram_read
\* has been called, with no wire set; an operation name other than "read"
\* and "write" aborts at instantiation, so no gate is run for it.
C38_GateShape ==
    /\ [][(pl_hist' # pl_hist /\ pl_res' = "ok") =>
             LET g == LastCall(pl_hist')
             IN  /\ WellShaped(g)
                 /\ Len(pl_calls') = Len(pl_calls) + 1
                 /\ LastCall(pl_calls').op = g.op
                 /\ IF g.op = "read"
                    THEN /\ pl_wires'[g.outputs[1][1]] = LastCall(pl_calls').val
                         /\ \A w \in GateWires \ {g.outputs[1][1]} :
                               pl_wires'[w] = pl_wires[w]
                    ELSE pl_wires' = pl_wires]_vars
    /\ [][(pl_hist' # pl_hist /\ ~RightCounts(LastCall(pl_hist'))) =>
             /\ pl_res' = "panic"
             /\ pl_calls' = pl_calls
             /\ pl_wires' = pl_wires]_vars
    /\ [][(pl_hist' # pl_hist /\ RightCounts(LastCall(pl_hist'))
              /\ ~WellShaped(LastCall(pl_hist'))) =>
             /\ pl_res' \in {"panic", "err"}
             /\ Len(pl_calls') = Len(pl_calls) + 1
             /\ LastCall(pl_calls').op = "read"
             /\ pl_wires' = pl_wires]_vars
    /\ [](/\ pl_op \notin {"none", "read", "write"} => pl_res = "panic"
          /\ \A k \in DOMAIN pl_hist : pl_hist[k].op \in {"read", "write"})

\* C38 as stated: a gate of any other shape aborts before the RAM is
\* touched.
C38_AbortsBeforeFacade ==
    [][(pl_hist' # pl_hist /\ ~WellShaped(LastCall(pl_hist'))) =>
          /\ pl_res' = "panic"
          /\ pl_calls' = pl_calls]_vars

\* after a Write gate that completed, a Read gate with an output range of two
\* wires has aborted: ram_read has been called and no wire was set
C38_Witness ==
    /\ Len(pl_hist) = 2
    /\ pl_hist[1].op = "write" /\ WellShaped(pl_hist[1])
    /\ pl_hist[2].op = "read" /\ pl_hist[2].outputs = <<<<0, 1>>>>
    /\ Len(pl_hist[2].inputs) = 1
    /\ pl_res = "panic"
    /\ Len(pl_calls) = 2
    /\ pl_calls[2].op = "read" /\ pl_calls[2].ok
    /\ pl_wires = [w \in GateWires |-> w]

==========================================================================
